---- MODULE Spec2Model ----
(***************************************************************************)
(* The task lifecycle engine (server/tasks.js, class TaskManager), the     *)
(* streaming fan-out it drives and the JSON-RPC method handlers of the     *)
(* server (second half of server/skills.js).                               *)
(*                                                                         *)
(* Texts are sequences of one-character strings, so that the substring     *)
(* tests of determineSkill and the template `Error: ${error.message}` are  *)
(* computed and not assumed.  JavaScript null is Null (the empty tuple);   *)
(* a session id that is not given is NoSession.  An optional string (the   *)
(* bytes or the uri of a file) is Null or a one-element tuple.             *)
(***************************************************************************)
EXTENDS Integers, Sequences, FiniteSets, TLC

\* ------------------------------------------------------------------ bounds
\* StreamingConnection objects created in one run
MaxConn == 2
\* calls of the engine's methods that change its store in one run of SpecEngine
MaxCalls == 4
\* getTask is called with a historyLength of 0..MaxHistory
MaxHistory == 2
\* parts in a message handed to determineSkill
MaxParts == 2
\* the clock readings Date.now() gives are 0, 500, ... MaxTime * 500 milliseconds
MaxTime == 2

\* ------------------------------------------------------------ input values
TaskIds == {"t1"}
\* the ids createTask is called with on the engine: the second task is only created
EngineIds == TaskIds \cup {"t2"}
\* an id no task is ever created with
UnknownIds == {"t0"}
SessionIds == {"s1"}
NoSession == "none"
Null == <<>>
\* an absent (falsy) skill id
NoSkill == ""

\* ------------------------------------------------------------------- texts
Lower(c) ==
  CASE c = "A" -> "a" [] c = "B" -> "b" [] c = "C" -> "c" [] c = "D" -> "d"
    [] c = "E" -> "e" [] c = "F" -> "f" [] c = "G" -> "g" [] c = "H" -> "h"
    [] c = "I" -> "i" [] c = "J" -> "j" [] c = "K" -> "k" [] c = "L" -> "l"
    [] c = "M" -> "m" [] c = "N" -> "n" [] c = "O" -> "o" [] c = "P" -> "p"
    [] c = "Q" -> "q" [] c = "R" -> "r" [] c = "S" -> "s" [] c = "T" -> "t"
    [] c = "U" -> "u" [] c = "V" -> "v" [] c = "W" -> "w" [] c = "X" -> "x"
    [] c = "Y" -> "y" [] c = "Z" -> "z" [] OTHER -> c

\* String.prototype.toLowerCase
toLowerCase(text) == [i \in 1..Len(text) |-> Lower(text[i])]

\* String.prototype.includes
includes(text, kw) ==
  \E i \in 0..(Len(text) - Len(kw)) :
    \A j \in 1..Len(kw) : text[i + j] = kw[j]

\* String.prototype.trim, for the blanks the skills add
RECURSIVE trim(_)
trim(text) ==
  IF text = <<>> THEN text
  ELSE IF Head(text) = " " THEN trim(Tail(text))
  ELSE IF text[Len(text)] = " " THEN trim(SubSeq(text, 1, Len(text) - 1))
  ELSE text

TxtAnalyzeThis == <<"p","l","e","a","s","e"," ","a","n","a","l","y","z","e"," ","t","h","i","s">>
TxtRunBatch == <<"R","u","n"," ","a"," ","b","a","t","c","h">>
TxtPhotoJson == <<"J","S","O","N"," ","o","f"," ","a"," ","P","h","o","t","o">>
TxtBatchSentiment == <<"B","a","t","c","h"," ","S","E","N","T","I","M","E","N","T">>
TxtToCsv == <<"t","o"," ","C","S","V">>
TxtBlank == <<" ">>
TxtCanceled == <<"T","a","s","k"," ","c","a","n","c","e","l","e","d"," ","b","y"," ","u","s","e","r"," ","r","e","q","u","e","s","t">>
TxtErrorPrefix == <<"E","r","r","o","r",":"," ">>
TxtUnknownSkill == <<"U","n","k","n","o","w","n"," ","s","k","i","l","l",":"," ">>
TxtNullWord == <<"n","u","l","l">>
TxtNoText == <<"N","o"," ","t","e","x","t"," ","p","r","o","v","i","d","e","d"," ","f","o","r"," ","a","n","a","l","y","s","i","s">>
TxtNoImage == <<"N","o"," ","i","m","a","g","e"," ","p","r","o","v","i","d","e","d">>
TxtNoData == <<"N","o"," ","d","a","t","a"," ","p","r","o","v","i","d","e","d">>
TxtNoOrchestration == <<"N","o"," ","o","r","c","h","e","s","t","r","a","t","i","o","n"," ","s","t","a","t","e"," ","f","o","u","n","d">>
TxtProviderDown == <<"P","r","o","v","i","d","e","r"," ","n","o","t"," ","a","v","a","i","l","a","b","l","e">>
TxtAnalysisDone == <<"T","e","x","t"," ","a","n","a","l","y","s","i","s"," ","c","o","m","p","l","e","t","e","d">>
TxtImageDone == <<"I","m","a","g","e"," ","p","r","o","c","e","s","s","i","n","g"," ","c","o","m","p","l","e","t","e","d">>
TxtImageFailed == <<"I","m","a","g","e"," ","p","r","o","c","e","s","s","i","n","g"," ","f","a","i","l","e","d">>
TxtDataDone == <<"D","a","t","a"," ","t","r","a","n","s","f","o","r","m","a","t","i","o","n"," ","c","o","m","p","l","e","t","e","d">>
TxtStarting == <<"S","t","a","r","t","i","n","g"," ","o","r","c","h","e","s","t","r","a","t","i","o","n">>
TxtOrchestrationDone == <<"O","r","c","h","e","s","t","r","a","t","i","o","n"," ","c","o","m","p","l","e","t","e","d"," ","s","u","c","c","e","s","s","f","u","l","l","y">>
TxtStepNeedsInput == <<"r","e","q","u","i","r","e","s"," ","u","s","e","r"," ","i","n","p","u","t",":">>
TxtNeedInput == <<"P","l","e","a","s","e"," ","p","r","o","v","i","d","e"," ","i","n","p","u","t">>
TxtTypeError == <<"C","a","n","n","o","t"," ","r","e","a","d"," ","p","r","o","p","e","r","t","i","e","s">>
TxtTaskExists == <<"T","a","s","k"," ","w","i","t","h"," ","t","h","i","s"," ","I","D"," ","a","l","r","e","a","d","y"," ","e","x","i","s","t","s">>
TxtTaskNotFound == <<"T","a","s","k"," ","n","o","t"," ","f","o","u","n","d">>
TxtNotWaiting == <<"T","a","s","k"," ","i","s"," ","n","o","t"," ","w","a","i","t","i","n","g"," ","f","o","r"," ","i","n","p","u","t">>
TxtExistsNotWaiting == <<"T","a","s","k"," ","a","l","r","e","a","d","y"," ","e","x","i","s","t","s"," ","a","n","d"," ","i","s"," ","n","o","t"," ","w","a","i","t","i","n","g">>
TxtNotCancelable == <<"T","a","s","k"," ","c","a","n","n","o","t"," ","b","e"," ","c","a","n","c","e","l","e","d">>
TxtMissingParams == <<"M","i","s","s","i","n","g"," ","r","e","q","u","i","r","e","d"," ","p","a","r","a","m","e","t","e","r","s">>
TxtInvalidMessage == <<"I","n","v","a","l","i","d"," ","m","e","s","s","a","g","e"," ","f","o","r","m","a","t">>

\* --------------------------------------------------- protocol value objects
\* ErrorCodes
INVALID_PARAMS == -32602
TASK_NOT_FOUND == -32001
TASK_NOT_CANCELABLE == -32002
INVALID_TASK_STATE == -32009
\* the code of a plain Error object, which has none
NO_CODE == 0

createJsonRpcError(code, message) == [code |-> code, message |-> message]
\* new Error(message)
PlainError(message) == [code |-> NO_CODE, message |-> message]
NoError == [code |-> NO_CODE, message |-> <<>>]

TaskState == {"submitted", "working", "input-required", "completed", "canceled", "failed", "unknown"}
terminalStates == {"completed", "canceled", "failed"}

createTextPart(text) == [type |-> "text", text |-> text]
createDataPart(data) == [type |-> "data", data |-> data]
createFilePart(file) == [type |-> "file", file |-> file]
createMessage(role, parts) == [role |-> role, parts |-> parts]
createTaskStatus(state, message) == [state |-> state, message |-> message]
createArtifact(name, parts) ==
  [name |-> name, parts |-> parts, index |-> 0, append |-> FALSE, lastChunk |-> FALSE]
createTaskObject(id, status, sessionId) ==
  [id |-> id, sessionId |-> sessionId, status |-> status, artifacts |-> <<>>,
   history |-> Null, metadata |-> [skill |-> NoSkill, orchestration |-> Null]]

\* --------------------------------------------------- message validation
\* a check that only asks for one of bytes and uri to be present
validateFileContentEither(file) ==
  (file.bytes # Null) \/ (file.uri # Null)

validateFileContent(file) ==
  (file.bytes # Null) # (file.uri # Null)

validatePart(part) ==
  CASE part.type = "text" -> TRUE
    [] part.type = "file" -> validateFileContent(part.file)
    [] part.type = "data" -> TRUE
    [] OTHER -> FALSE

validateMessage(message) ==
  /\ message # Null
  /\ message.role \in {"user", "agent"}
  /\ Len(message.parts) > 0
  /\ \A i \in 1..Len(message.parts) : validatePart(message.parts[i])

\* ------------------------------------------------------------ skill routing
SkillIds == {"text-analysis", "image-processing", "data-transformation", "task-orchestration"}

\* a scan that tests the task-orchestration keywords before the others
RECURSIVE ScanPartsBatchFirst(_)
ScanPartsBatchFirst(parts) ==
  IF parts = <<>> THEN "text-analysis"
  ELSE LET part == Head(parts) IN
    IF part.type # "text" THEN ScanPartsBatchFirst(Tail(parts))
    ELSE LET text == toLowerCase(part.text) IN
      IF includes(text, <<"b","a","t","c","h">>)
           \/ includes(text, <<"p","i","p","e","l","i","n","e">>)
           \/ includes(text, <<"o","r","c","h","e","s","t","r","a","t","e">>)
        THEN "task-orchestration"
      ELSE IF includes(text, <<"a","n","a","l","y","z","e">>)
           \/ includes(text, <<"s","e","n","t","i","m","e","n","t">>)
        THEN "text-analysis"
      ELSE IF includes(text, <<"i","m","a","g","e">>)
           \/ includes(text, <<"p","h","o","t","o">>)
           \/ includes(text, <<"p","i","c","t","u","r","e">>)
        THEN "image-processing"
      ELSE IF includes(text, <<"c","o","n","v","e","r","t">>)
           \/ includes(text, <<"t","r","a","n","s","f","o","r","m">>)
           \/ includes(text, <<"c","s","v">>)
           \/ includes(text, <<"j","s","o","n">>)
        THEN "data-transformation"
      ELSE ScanPartsBatchFirst(Tail(parts))

RECURSIVE ScanParts(_)
ScanParts(parts) ==
  IF parts = <<>> THEN "text-analysis"
  ELSE LET part == Head(parts) IN
    IF part.type # "text" THEN ScanParts(Tail(parts))
    ELSE LET text == toLowerCase(part.text) IN
      IF includes(text, <<"a","n","a","l","y","z","e">>)
           \/ includes(text, <<"s","e","n","t","i","m","e","n","t">>)
        THEN "text-analysis"
      ELSE IF includes(text, <<"i","m","a","g","e">>)
           \/ includes(text, <<"p","h","o","t","o">>)
           \/ includes(text, <<"p","i","c","t","u","r","e">>)
        THEN "image-processing"
      ELSE IF includes(text, <<"c","o","n","v","e","r","t">>)
           \/ includes(text, <<"t","r","a","n","s","f","o","r","m">>)
           \/ includes(text, <<"c","s","v">>)
           \/ includes(text, <<"j","s","o","n">>)
        THEN "data-transformation"
      ELSE IF includes(text, <<"b","a","t","c","h">>)
           \/ includes(text, <<"p","i","p","e","l","i","n","e">>)
           \/ includes(text, <<"o","r","c","h","e","s","t","r","a","t","e">>)
        THEN "task-orchestration"
      ELSE ScanParts(Tail(parts))

\* NoSkill when the status carries no message
determineSkill(task) ==
  IF task.metadata.skill # NoSkill THEN task.metadata.skill
  ELSE IF task.status.message = Null THEN NoSkill
  ELSE ScanParts(task.status.message.parts)

\* ------------------------------------------------------------------ inputs
MsgAnalyze == createMessage("user", <<createTextPart(TxtAnalyzeThis)>>)
MsgBatch == createMessage("user", <<createTextPart(TxtRunBatch)>>)
\* a message validateMessage rejects: its parts list is empty
MsgNoParts == createMessage("user", <<>>)
\* a message validateMessage rejects: a file part with both bytes and uri
MsgBadFile == createMessage("user", <<createFilePart([bytes |-> <<"AAAA">>, uri |-> <<"https://x/f">>])>>)
\* a message validateMessage rejects: a file part with neither bytes nor uri
MsgEmptyFile == createMessage("user", <<createFilePart([bytes |-> Null, uri |-> Null])>>)
\* a message validateMessage rejects: its role is neither user nor agent
MsgBadRole == createMessage("system", <<createTextPart(TxtAnalyzeThis)>>)
\* a message validateMessage rejects: a part of no known type
MsgBadPart == createMessage("user", <<[type |-> "image", text |-> TxtAnalyzeThis]>>)
\* a valid message whose only text is blank
MsgBlank == createMessage("user", <<createTextPart(TxtBlank)>>)
UserMessages == {MsgAnalyze, MsgBatch, MsgBlank}
PushConfig == [url |-> "https://client/hook", token |-> "tok"]
PushConfigOther == [url |-> "https://client/other", token |-> ""]

\* ------------------------------------------------------------------- state
VARIABLES
  tasks,                    \* TaskManager.tasks: id -> task
  sessions,                 \* TaskManager.sessions: session id -> list of task ids
  pushNotificationConfigs,  \* TaskManager.pushNotificationConfigs: id -> config
  streamingConnections,     \* TaskManager.streamingConnections: id -> list of connections
  connections,              \* the StreamingConnection objects: what each was sent, closed or not
  pushAttempts,             \* the webhook posts started by sendPushNotification
  inflight,                 \* skill invocations awaited inside processTask / continueTask
  scheduled,                \* callbacks queued with process.nextTick
  statusLog,                \* history variable: every status installed for a task, oldest first
  eventLog,                 \* history variable: every event published for a task, oldest first
  lastOp,                   \* history variable: the call that ended last and how it ended
  nCalls                    \* calls that changed the store so far

vars == <<tasks, sessions, pushNotificationConfigs, streamingConnections, connections,
          pushAttempts, inflight, scheduled, statusLog, eventLog, lastOp, nCalls>>

\* the engine's store, threaded through the operators below
TM == [tasks |-> tasks, streamingConnections |-> streamingConnections,
       connections |-> connections, pushNotificationConfigs |-> pushNotificationConfigs,
       pushAttempts |-> pushAttempts, statusLog |-> statusLog, eventLog |-> eventLog]

Install(tm) ==
  /\ tasks' = tm.tasks
  /\ streamingConnections' = tm.streamingConnections
  /\ connections' = tm.connections
  /\ pushNotificationConfigs' = tm.pushNotificationConfigs
  /\ pushAttempts' = tm.pushAttempts
  /\ statusLog' = tm.statusLog
  /\ eventLog' = tm.eventLog

\* lastOp: phase is "await" when the call is suspended on the skill invocation
\* call, "end" when it returned or threw error; result is what the skill settled to
Op(name, id, error) ==
  [op |-> name, phase |-> "end", id |-> id, error |-> error, call |-> Null, result |-> Null]
OpOf(name, id, out) ==
  IF out.calls = {} THEN Op(name, id, out.error)
  ELSE [op |-> name, phase |-> "await", id |-> id, error |-> NoError,
        call |-> CHOOSE c \in out.calls : TRUE, result |-> Null]
OpSettled(name, call, result, error) ==
  [op |-> name, phase |-> "end", id |-> call.id, error |-> error, call |-> call,
   result |-> result]

MapRemove(f, k) == [x \in DOMAIN f \ {k} |-> f[x]]
MapPut(f, k, v) == [x \in DOMAIN f \cup {k} |-> IF x = k THEN v ELSE f[x]]

\* --------------------------------------------------------- the task engine
\* JSON.parse(JSON.stringify(task)): every list and object rebuilt, member by member
JsonCopyList(list) == [i \in 1..Len(list) |-> list[i]]
JsonCopy(task) ==
  [id |-> task.id, sessionId |-> task.sessionId,
   status |-> [state |-> task.status.state, message |-> task.status.message],
   artifacts |-> JsonCopyList(task.artifacts),
   history |-> JsonCopyList(task.history),
   metadata |-> [skill |-> task.metadata.skill, orchestration |-> task.metadata.orchestration]]

\* Array.prototype.slice(0, n), n > 0
SliceFirst(list, n) ==
  IF n >= Len(list) THEN list ELSE SubSeq(list, 1, n)

\* Array.prototype.slice(-n), n > 0
SliceLast(list, n) ==
  IF n >= Len(list) THEN list ELSE SubSeq(list, Len(list) - n + 1, Len(list))

\* getTask on an id that is registered (an unknown id throws TASK_NOT_FOUND)
getTask(tm, taskId, historyLength) ==
  LET taskCopy == JsonCopy(tm.tasks[taskId]) IN
    IF historyLength > 0
      THEN [taskCopy EXCEPT !.history = SliceLast(@, historyLength)]
      ELSE taskCopy

NotFound == createJsonRpcError(TASK_NOT_FOUND, TxtTaskNotFound)

\* an entry of eventLog: what notifyStreamingConnections was called with
Published(eventType, data) == [type |-> eventType, data |-> data]

\* StreamingConnection.sendEvent: a response that was ended takes no more writes
sendEvent(conns, c, eventType, data, isFinal) ==
  IF conns[c].closed THEN conns
  ELSE [conns EXCEPT ![c].sent = Append(@, [type |-> eventType, data |-> data, final |-> isFinal])]

RECURSIVE SendEach(_, _, _, _, _)
SendEach(conns, list, eventType, data, isFinal) ==
  IF list = <<>> THEN conns
  ELSE SendEach(sendEvent(conns, Head(list), eventType, data, isFinal),
                Tail(list), eventType, data, isFinal)

\* StreamingConnection.close, for every connection of the list
CloseEach(conns, list) ==
  [c \in DOMAIN conns |->
     IF \E i \in 1..Len(list) : list[i] = c THEN [conns[c] EXCEPT !.closed = TRUE] ELSE conns[c]]

\* notifyStreamingConnections that neither closes nor removes on a terminal state
notifyStreamingConnectionsKeeps(tm, taskId, eventType, data) ==
  IF taskId \notin DOMAIN tm.streamingConnections THEN tm
  ELSE
    LET list == tm.streamingConnections[taskId]
        isTerminal == tm.tasks[taskId].status.state \in terminalStates
    IN [tm EXCEPT !.connections = SendEach(tm.connections, list, eventType, data, isTerminal)]

notifyStreamingConnections(tm, taskId, eventType, data) ==
  IF taskId \notin DOMAIN tm.streamingConnections THEN tm
  ELSE
    LET list == tm.streamingConnections[taskId]
        isTerminal == tm.tasks[taskId].status.state \in terminalStates
        sentTo == SendEach(tm.connections, list, eventType, data, isTerminal)
    IN IF isTerminal
         THEN [tm EXCEPT !.connections = CloseEach(sentTo, list),
                         !.streamingConnections = MapRemove(@, taskId)]
         ELSE [tm EXCEPT !.connections = sentTo]

\* the part of sendPushNotification that runs before its await: the post is started
sendPushNotification(tm, taskId) ==
  IF taskId \notin DOMAIN tm.pushNotificationConfigs THEN tm
  ELSE [tm EXCEPT !.pushAttempts =
          Append(@, [taskId |-> taskId, status |-> tm.tasks[taskId].status,
                     outcome |-> "pending",
                     \* history field: how many events of the task were published before
                     published |-> Len(tm.eventLog[taskId])])]

\* a sendPushNotification that posts again when the post failed
postSettledRetries(tm, i, ok) ==
  IF ok THEN [tm EXCEPT !.pushAttempts[i].outcome = "delivered"]
  ELSE [tm EXCEPT !.pushAttempts =
          Append([@ EXCEPT ![i].outcome = "failed"], [@[i] EXCEPT !.outcome = "pending"])]

\* sendPushNotification after its await: the post was answered (ok) or it failed
\* and the catch logged the error
postSettled(tm, i, ok) ==
  [tm EXCEPT !.pushAttempts[i].outcome = IF ok THEN "delivered" ELSE "failed"]

\* ArchiveStatus without the test of the outgoing message
ArchiveStatusAlways(task) ==
  Append(task.history, task.status.message)

\* task.history after the outgoing status was archived
ArchiveStatus(task) ==
  IF task.status.message # Null THEN Append(task.history, task.status.message)
  ELSE task.history

\* updateTaskStatus that starts the post before it notifies the connections
updateTaskStatusPushFirst(tm, taskId, newStatus) ==
  LET task == tm.tasks[taskId]
      updated == [task EXCEPT !.history = ArchiveStatus(task), !.status = newStatus]
      stored == [tm EXCEPT !.tasks[taskId] = updated,
                           !.statusLog[taskId] = Append(@, newStatus)]
      posted == sendPushNotification(stored, taskId)
  IN notifyStreamingConnections(
       [posted EXCEPT !.eventLog[taskId] = Append(@, Published("status", newStatus))],
       taskId, "status", newStatus)

\* updateTaskStatus on an id that is registered
updateTaskStatus(tm, taskId, newStatus) ==
  LET task == tm.tasks[taskId]
      updated == [task EXCEPT !.history = ArchiveStatus(task), !.status = newStatus]
      stored == [tm EXCEPT !.tasks[taskId] = updated,
                           !.statusLog[taskId] = Append(@, newStatus),
                           !.eventLog[taskId] = Append(@, Published("status", newStatus))]
      notified == notifyStreamingConnections(stored, taskId, "status", newStatus)
  IN sendPushNotification(notified, taskId)

RECURSIVE NotifyEach(_, _, _)
NotifyEach(tm, taskId, artifacts) ==
  IF artifacts = <<>> THEN tm
  ELSE NotifyEach(notifyStreamingConnections(
                    [tm EXCEPT !.eventLog[taskId] = Append(@, Published("artifact", Head(artifacts)))],
                    taskId, "artifact", Head(artifacts)),
                  taskId, Tail(artifacts))

\* addArtifacts on an id that is registered
addArtifacts(tm, taskId, artifacts) ==
  NotifyEach([tm EXCEPT !.tasks[taskId].artifacts = @ \o artifacts], taskId, artifacts)

\* ------------------------------------------------------------- expiry
\* Date.prototype.toISOString, to the millisecond: the seconds and the
\* milliseconds are separate fields of the text
toISOString(ms) == [seconds |-> ms \div 1000, millis |-> ms % 1000]

\* new Date(text).getTime()
getTime(iso) == iso.seconds * 1000 + iso.millis

\* createTaskStatus called when the clock shows ms
createTaskStatusAt(state, message, ms) ==
  [state |-> state, message |-> message, timestamp |-> toISOString(ms)]

\* cleanupExpiredTasks that does not look at the state of an old task
cleanupExpiredTasksAnyState(tm, now, maxAge) ==
  LET gone == {id \in DOMAIN tm.tasks : now - getTime(tm.tasks[id].status.timestamp) > maxAge}
  IN [tm EXCEPT !.tasks = [id \in DOMAIN tm.tasks \ gone |-> tm.tasks[id]],
                !.pushNotificationConfigs =
                  [id \in DOMAIN tm.pushNotificationConfigs \ gone |->
                     tm.pushNotificationConfigs[id]]]

\* cleanupExpiredTasks that deletes the tasks and leaves their push configurations
cleanupExpiredTasksKeepsConfigs(tm, now, maxAge) ==
  LET gone == {id \in DOMAIN tm.tasks :
                 /\ now - getTime(tm.tasks[id].status.timestamp) > maxAge
                 /\ tm.tasks[id].status.state \in {"completed", "failed", "canceled"}}
  IN [tm EXCEPT !.tasks = [id \in DOMAIN tm.tasks \ gone |-> tm.tasks[id]]]

\* cleanupExpiredTasks: Date.now() gave now
cleanupExpiredTasks(tm, now, maxAge) ==
  LET gone == {id \in DOMAIN tm.tasks :
                 /\ now - getTime(tm.tasks[id].status.timestamp) > maxAge
                 /\ tm.tasks[id].status.state \in {"completed", "failed", "canceled"}}
  IN [tm EXCEPT !.tasks = [id \in DOMAIN tm.tasks \ gone |-> tm.tasks[id]],
                !.pushNotificationConfigs =
                  [id \in DOMAIN tm.pushNotificationConfigs \ gone |->
                     tm.pushNotificationConfigs[id]]]

\* cleanupExpiredTasks where the statuses of the tasks of `old` are older than
\* maxAge and the others are not
cleanupExpiredTasksOld(tm, old) ==
  LET gone == {id \in DOMAIN tm.tasks :
                 /\ id \in old
                 /\ tm.tasks[id].status.state \in {"completed", "failed", "canceled"}}
  IN [tm EXCEPT !.tasks = [id \in DOMAIN tm.tasks \ gone |-> tm.tasks[id]],
                !.pushNotificationConfigs =
                  [id \in DOMAIN tm.pushNotificationConfigs \ gone |->
                     tm.pushNotificationConfigs[id]]]

\* ---------------------------------------------------------------- skills
\* the text a skill id shows as inside a template string
SkillText(skillId) ==
  CASE skillId = NoSkill -> TxtNullWord
    [] skillId = "text-analysis" -> <<"t","e","x","t","-","a","n","a","l","y","s","i","s">>
    [] skillId = "task-orchestration" -> <<"t","a","s","k","-","o","r","c","h","e","s","t","r","a","t","i","o","n">>
    [] skillId = "summarize" -> <<"s","u","m","m","a","r","i","z","e">>
    [] OTHER -> <<"?">>

RECURSIVE JoinText(_)
\* text-analysis: textToAnalyze += part.text + ' ' over the text parts
JoinText(parts) ==
  IF parts = <<>> THEN <<>>
  ELSE IF Head(parts).type = "text" THEN Head(parts).text \o <<" ">> \o JoinText(Tail(parts))
  ELSE JoinText(Tail(parts))

HasPart(parts, type) == \E i \in 1..Len(parts) : parts[i].type = type

\* the error a skill's process throws before its first await, Null if it awaits
EarlyError(skillId, task) ==
  IF task.status.message = Null THEN TxtTypeError
  ELSE
  LET parts == task.status.message.parts IN
  CASE skillId = "text-analysis" ->
         IF trim(JoinText(parts)) = <<>> THEN TxtNoText ELSE Null
    [] skillId = "image-processing" ->
         IF HasPart(parts, "file") THEN Null ELSE TxtNoImage
    [] skillId = "data-transformation" ->
         IF HasPart(parts, "data") THEN Null ELSE TxtNoData
    [] OTHER -> Null

Resolved(message, artifacts) ==
  [ok |-> TRUE, message |-> message, artifacts |-> artifacts, error |-> Null]
Rejected(text) ==
  [ok |-> FALSE, message |-> Null, artifacts |-> <<>>, error |-> text]

AgentText(text) == createMessage("agent", <<createTextPart(text)>>)

\* what an awaited skill.process(task) can settle to: the value it returns,
\* or the error of the model provider it called
ProcessOutcomes(skillId) ==
  CASE skillId = "text-analysis" ->
         { Resolved(AgentText(TxtAnalysisDone),
                    << createArtifact("text-analysis-results.json", <<createDataPart("analysis")>>),
                       createArtifact("analysis-summary.txt", <<createTextPart(TxtAnalysisDone)>>) >>),
           Rejected(TxtProviderDown) }
    [] skillId = "image-processing" ->
         { Resolved(AgentText(TxtImageDone),
                    << createArtifact("processed-image.png", <<createFilePart([bytes |-> <<"AAAA">>, uri |-> Null])>>),
                       createArtifact("processing-results.json", <<createDataPart("results")>>) >>),
           Resolved(AgentText(TxtImageFailed), <<>>) }
    [] skillId = "data-transformation" ->
         { Resolved(AgentText(TxtDataDone),
                    << createArtifact("transformed-data.json", <<createDataPart("transformed")>>) >>),
           Rejected(TxtProviderDown) }
    [] skillId = "task-orchestration" ->
         { Resolved(AgentText(TxtStarting), <<>>),
           Rejected(TxtProviderDown) }

\* skills whose object has a continueOrchestration member
HasContinue(skillId) == skillId = "task-orchestration"

\* metadata.orchestration: for each step whether it requires input, and the
\* index (from 0) of the current step
Orchestrations ==
  { [steps |-> <<FALSE>>, currentStep |-> 0],
    [steps |-> <<FALSE, FALSE>>, currentStep |-> 0],
    [steps |-> <<FALSE, TRUE>>, currentStep |-> 0],
    [steps |-> <<FALSE, FALSE, TRUE>>, currentStep |-> 0] }

\* continueOrchestration walks the steps after the current one: TRUE when it
\* runs past the last step (completeOrchestration), FALSE when it meets a step
\* that requires input (requestUserInput)
RECURSIVE RunsToEnd(_)
RunsToEnd(orchestration) ==
  LET nextStep == orchestration.currentStep + 1 IN
    IF nextStep >= Len(orchestration.steps) THEN TRUE
    ELSE IF orchestration.steps[nextStep + 1] THEN FALSE
    ELSE RunsToEnd([orchestration EXCEPT !.currentStep = nextStep])

\* what an awaited skill.continueOrchestration(task) can settle to; taskState
\* is task.status.state of the task object it was passed, as it leaves it;
\* finished is a history field: completeOrchestration produced the value
ContinueOutcomes(task) ==
  IF RunsToEnd(task.metadata.orchestration)
    THEN { [ok |-> TRUE, message |-> AgentText(TxtOrchestrationDone),
            artifacts |-> << createArtifact("orchestration-report.json", <<createDataPart("report")>>),
                             createArtifact("orchestration-summary.txt",
                                            <<createTextPart(TxtOrchestrationDone)>>) >>,
            error |-> Null, taskState |-> task.status.state, finished |-> TRUE],
           [ok |-> FALSE, message |-> Null, artifacts |-> <<>>, error |-> TxtProviderDown,
            taskState |-> task.status.state, finished |-> FALSE] }
    ELSE { [ok |-> TRUE, message |-> AgentText(TxtStepNeedsInput), artifacts |-> <<>>,
            error |-> Null, taskState |-> "input-required", finished |-> FALSE] }

\* ------------------------------------------------------------- operations
Outcome(tm, error, calls) == [tm |-> tm, error |-> error, calls |-> calls]

\* an awaited skill invocation; watchers is a history field: the connections
\* registered for the task ever since the invocation started
Call(n, taskId, fn, skillId, task) ==
  [n |-> n, id |-> taskId, fn |-> fn, skillId |-> skillId, task |-> task,
   watchers |-> {}]

failedStatus(text) ==
  createTaskStatus("failed", AgentText(TxtErrorPrefix \o text))

\* createTask without the test for a registered id
createTaskOverwrites(tm, sess, id, sessionId, message) ==
  LET status == createTaskStatus("submitted", message)
      task == createTaskObject(id, status, sessionId)
  IN [tm |-> [tm EXCEPT !.tasks = MapPut(@, id, task),
                        !.statusLog = MapPut(@, id, <<status>>),
                        !.eventLog = MapPut(@, id, <<>>)],
      sessions |-> IF sessionId # NoSession
                     THEN MapPut(sess, sessionId,
                                 (IF sessionId \in DOMAIN sess THEN sess[sessionId] ELSE <<>>)
                                   \o <<id>>)
                     ELSE sess,
      error |-> NoError]

\* createTask that stores the task without its triggering message
createTaskDropsMessage(tm, sess, id, sessionId, message) ==
  IF id \in DOMAIN tm.tasks
    THEN [tm |-> tm, sessions |-> sess,
          error |-> createJsonRpcError(INVALID_PARAMS, TxtTaskExists)]
    ELSE
      LET status == createTaskStatus("submitted", Null)
          task == createTaskObject(id, status, sessionId)
      IN [tm |-> [tm EXCEPT !.tasks = MapPut(@, id, task),
                            !.statusLog = MapPut(@, id, <<status>>),
                            !.eventLog = MapPut(@, id, <<>>)],
          sessions |-> IF sessionId # NoSession
                         THEN MapPut(sess, sessionId,
                                     (IF sessionId \in DOMAIN sess THEN sess[sessionId] ELSE <<>>)
                                       \o <<id>>)
                         ELSE sess,
          error |-> NoError]

\* createTask: the store after the call, or the error it throws
createTask(tm, sess, id, sessionId, message) ==
  IF id \in DOMAIN tm.tasks
    THEN [tm |-> tm, sessions |-> sess,
          error |-> createJsonRpcError(INVALID_PARAMS, TxtTaskExists)]
    ELSE
      LET status == createTaskStatus("submitted", message)
          task == createTaskObject(id, status, sessionId)
      IN [tm |-> [tm EXCEPT !.tasks = MapPut(@, id, task),
                            !.statusLog = MapPut(@, id, <<status>>),
                            !.eventLog = MapPut(@, id, <<>>)],
          sessions |-> IF sessionId # NoSession
                         THEN MapPut(sess, sessionId,
                                     (IF sessionId \in DOMAIN sess THEN sess[sessionId] ELSE <<>>)
                                       \o <<id>>)
                         ELSE sess,
          error |-> NoError]

\* processTask that installs the working status before it looks for the skill
processTaskWorkingFirst(tm, taskId, n) ==
  IF taskId \notin DOMAIN tm.tasks THEN Outcome(tm, NotFound, {})
  ELSE
    LET task == getTask(tm, taskId, 0)
        skillId == determineSkill(task)
        working == updateTaskStatus(tm, taskId, createTaskStatus("working", Null))
    IN IF skillId = NoSkill \/ skillId \notin SkillIds
         THEN Outcome(working, PlainError(TxtUnknownSkill \o SkillText(skillId)), {})
         ELSE
           LET early == EarlyError(skillId, task)
           IN IF early # Null
                THEN Outcome(updateTaskStatus(working, taskId, failedStatus(early)),
                             PlainError(early), {})
                ELSE Outcome(working, NoError, {Call(n, taskId, "process", skillId, task)})

\* processTask that invokes the skill without installing the working status
processTaskNoWorking(tm, taskId, n) ==
  IF taskId \notin DOMAIN tm.tasks THEN Outcome(tm, NotFound, {})
  ELSE
    LET task == getTask(tm, taskId, 0)
        skillId == determineSkill(task)
    IN IF skillId = NoSkill \/ skillId \notin SkillIds
         THEN Outcome(tm, PlainError(TxtUnknownSkill \o SkillText(skillId)), {})
         ELSE
           LET early == EarlyError(skillId, task)
           IN IF early # Null
                THEN Outcome(updateTaskStatus(tm, taskId, failedStatus(early)),
                             PlainError(early), {})
                ELSE Outcome(tm, NoError, {Call(n, taskId, "process", skillId, task)})

\* processTask up to its await: the store, the error thrown (if any), and the
\* skill invocation now awaited (if any)
processTask(tm, taskId, n) ==
  IF taskId \notin DOMAIN tm.tasks THEN Outcome(tm, NotFound, {})
  ELSE
    LET task == getTask(tm, taskId, 0)
        skillId == determineSkill(task)
    IN IF skillId = NoSkill \/ skillId \notin SkillIds
         THEN Outcome(tm, PlainError(TxtUnknownSkill \o SkillText(skillId)), {})
         ELSE
           LET working == updateTaskStatus(tm, taskId, createTaskStatus("working", Null))
               early == EarlyError(skillId, task)
           IN IF early # Null
                THEN Outcome(updateTaskStatus(working, taskId, failedStatus(early)),
                             PlainError(early), {})
                ELSE Outcome(working, NoError, {Call(n, taskId, "process", skillId, task)})

\* processTaskResolved that chooses the final state as continueTask does, from
\* the message the skill returned with no artifacts
processTaskResolvedAsks(tm, taskId, result) ==
  LET withArtifacts == IF Len(result.artifacts) > 0
                         THEN addArtifacts(tm, taskId, result.artifacts)
                         ELSE tm
  IN updateTaskStatus(withArtifacts, taskId,
       createTaskStatus(IF Len(result.artifacts) = 0 THEN "input-required" ELSE "completed",
                        result.message))

\* processTaskResolved with the final status installed before the artifacts are added
processTaskResolvedStatusFirst(tm, taskId, result) ==
  LET completed == updateTaskStatus(tm, taskId, createTaskStatus("completed", result.message))
  IN IF Len(result.artifacts) > 0
       THEN addArtifacts(completed, taskId, result.artifacts)
       ELSE completed

\* processTask after its await, the skill having returned result; for a task
\* that was removed meanwhile getTask throws in each call, the one of the
\* catch block included, and the store is left as it was
processTaskResolved(tm, taskId, result) ==
  IF taskId \notin DOMAIN tm.tasks THEN tm
  ELSE
    LET withArtifacts == IF Len(result.artifacts) > 0
                           THEN addArtifacts(tm, taskId, result.artifacts)
                           ELSE tm
    IN updateTaskStatus(withArtifacts, taskId, createTaskStatus("completed", result.message))

\* a processTask without a catch: the error leaves the task as it was
processTaskRejectedNoCatch(tm, taskId, text) ==
  tm

\* processTaskRejected whose failed status carries the bare prefix, not the error text
processTaskRejectedNoText(tm, taskId, text) ==
  updateTaskStatus(tm, taskId, failedStatus(<<>>))

\* processTask after its await, the skill having thrown
processTaskRejected(tm, taskId, text) ==
  IF taskId \notin DOMAIN tm.tasks THEN tm
  ELSE updateTaskStatus(tm, taskId, failedStatus(text))

\* continueTask without the test of the task's state
continueTaskUnchecked(tm, taskId, userMessage, n) ==
  IF taskId \notin DOMAIN tm.tasks THEN Outcome(tm, NotFound, {})
  ELSE processTask(tm, taskId, n)

\* continueTask up to its await
continueTask(tm, taskId, userMessage, n) ==
  IF taskId \notin DOMAIN tm.tasks THEN Outcome(tm, NotFound, {})
  ELSE
    LET task == getTask(tm, taskId, 0) IN
    IF task.status.state # "input-required"
      THEN Outcome(tm, createJsonRpcError(INVALID_TASK_STATE, TxtNotWaiting), {})
      ELSE
        LET local == [task EXCEPT !.history = Append(@, userMessage)]
            skillId == determineSkill(local)
        IN IF skillId \notin SkillIds
             THEN Outcome(tm, PlainError(TxtTypeError), {})
           ELSE IF HasContinue(skillId)
             THEN IF local.metadata.orchestration = Null
                    THEN Outcome(tm, PlainError(TxtNoOrchestration), {})
                    ELSE Outcome(tm, NoError,
                                 {Call(n, taskId, "continueOrchestration", skillId, local)})
           ELSE processTask(tm, taskId, n)

\* continueTask after its await, the skill's continueOrchestration having returned
continueTaskResolved(tm, taskId, result) ==
  LET withArtifacts == addArtifacts(tm, taskId, result.artifacts) IN
    IF result.message # Null
      THEN updateTaskStatus(withArtifacts, taskId,
             createTaskStatus(IF result.taskState = "input-required"
                                THEN "input-required" ELSE "completed",
                              result.message))
      ELSE withArtifacts

\* cancelTask whose list of terminal states lacks failed
cancelTaskFailedCancelable(tm, taskId) ==
  IF taskId \notin DOMAIN tm.tasks THEN Outcome(tm, NotFound, {})
  ELSE IF getTask(tm, taskId, 0).status.state \in {"completed", "canceled"}
    THEN Outcome(tm, createJsonRpcError(TASK_NOT_CANCELABLE, TxtNotCancelable), {})
  ELSE Outcome(updateTaskStatus(tm, taskId,
                  createTaskStatus("canceled", AgentText(TxtCanceled))),
               NoError, {})

\* cancelTask that refuses a task a skill is working on
cancelTaskRefusesWorking(tm, taskId) ==
  IF taskId \notin DOMAIN tm.tasks THEN Outcome(tm, NotFound, {})
  ELSE IF getTask(tm, taskId, 0).status.state \in terminalStates \cup {"working"}
    THEN Outcome(tm, createJsonRpcError(TASK_NOT_CANCELABLE, TxtNotCancelable), {})
  ELSE Outcome(updateTaskStatus(tm, taskId,
                  createTaskStatus("canceled", AgentText(TxtCanceled))),
               NoError, {})

\* cancelTask
cancelTask(tm, taskId) ==
  IF taskId \notin DOMAIN tm.tasks THEN Outcome(tm, NotFound, {})
  ELSE IF getTask(tm, taskId, 0).status.state \in terminalStates
    THEN Outcome(tm, createJsonRpcError(TASK_NOT_CANCELABLE, TxtNotCancelable), {})
  ELSE Outcome(updateTaskStatus(tm, taskId,
                  createTaskStatus("canceled", AgentText(TxtCanceled))),
               NoError, {})

\* setPushNotificationConfig that keeps the stored configuration when one exists
setPushNotificationConfigKeepsFirst(tm, taskId, config) ==
  IF config # Null
    THEN IF taskId \in DOMAIN tm.pushNotificationConfigs THEN tm
         ELSE [tm EXCEPT !.pushNotificationConfigs = MapPut(@, taskId, config)]
    ELSE [tm EXCEPT !.pushNotificationConfigs = MapRemove(@, taskId)]

\* setPushNotificationConfig on an id that is registered
setPushNotificationConfig(tm, taskId, config) ==
  IF config # Null
    THEN [tm EXCEPT !.pushNotificationConfigs = MapPut(@, taskId, config)]
    ELSE [tm EXCEPT !.pushNotificationConfigs = MapRemove(@, taskId)]

\* what getPushNotificationConfig returns for an id that is registered
getPushNotificationConfig(tm, taskId) ==
  [id |-> taskId,
   pushNotificationConfig |-> IF taskId \in DOMAIN tm.pushNotificationConfigs
                                THEN tm.pushNotificationConfigs[taskId] ELSE Null]

RECURSIVE ReplayArtifacts(_, _, _)
ReplayArtifacts(conns, c, artifacts) ==
  IF artifacts = <<>> THEN conns
  ELSE ReplayArtifacts(sendEvent(conns, c, "artifact", Head(artifacts), FALSE),
                       c, Tail(artifacts))

\* addStreamingConnection that replays the status but not the artifacts
addStreamingConnectionNoArtifacts(tm, taskId, c) ==
  LET list == IF taskId \in DOMAIN tm.streamingConnections
                THEN tm.streamingConnections[taskId] ELSE <<>>
      registered == [tm EXCEPT !.streamingConnections = MapPut(@, taskId, Append(list, c))]
  IN IF taskId \notin DOMAIN tm.tasks THEN Outcome(registered, NotFound, {})
     ELSE Outcome([registered EXCEPT !.connections =
                     sendEvent(registered.connections, c, "status",
                               getTask(registered, taskId, 0).status, FALSE)],
                  NoError, {})

\* addStreamingConnection: the connection is registered before the task is looked up
addStreamingConnection(tm, taskId, c) ==
  LET list == IF taskId \in DOMAIN tm.streamingConnections
                THEN tm.streamingConnections[taskId] ELSE <<>>
      registered == [tm EXCEPT !.streamingConnections = MapPut(@, taskId, Append(list, c))]
  IN IF taskId \notin DOMAIN tm.tasks THEN Outcome(registered, NotFound, {})
     ELSE
       LET task == getTask(registered, taskId, 0)
           withStatus == sendEvent(registered.connections, c, "status", task.status, FALSE)
       IN Outcome([registered EXCEPT !.connections =
                     ReplayArtifacts(withStatus, c, task.artifacts)],
                  NoError, {})

\* Array.prototype.splice(indexOf(c), 1)
RECURSIVE Without(_, _)
Without(list, c) ==
  IF list = <<>> THEN list
  ELSE IF Head(list) = c THEN Tail(list)
  ELSE <<Head(list)>> \o Without(Tail(list), c)

\* removeStreamingConnection that splices at index 0 whatever indexOf found
removeStreamingConnectionFirst(tm, taskId, c) ==
  IF taskId \notin DOMAIN tm.streamingConnections THEN tm
  ELSE
    LET rest == Tail(tm.streamingConnections[taskId]) IN
      IF rest = <<>>
        THEN [tm EXCEPT !.streamingConnections = MapRemove(@, taskId)]
        ELSE [tm EXCEPT !.streamingConnections[taskId] = rest]

removeStreamingConnection(tm, taskId, c) ==
  IF taskId \notin DOMAIN tm.streamingConnections THEN tm
  ELSE
    LET rest == Without(tm.streamingConnections[taskId], c) IN
      IF rest = <<>>
        THEN [tm EXCEPT !.streamingConnections = MapRemove(@, taskId)]
        ELSE [tm EXCEPT !.streamingConnections[taskId] = rest]

\* new StreamingConnection(res, taskId, requestId)
NewConnection(tm, c, taskId) ==
  [tm EXCEPT !.connections = MapPut(@, c, [taskId |-> taskId, sent |-> <<>>, closed |-> FALSE])]

\* --------------------------------------------------------------- actions
Registered(tm, taskId) ==
  IF taskId \in DOMAIN tm.streamingConnections
    THEN {tm.streamingConnections[taskId][i] : i \in 1..Len(tm.streamingConnections[taskId])}
    ELSE {}

\* the invocations awaited after a step: those started by it watch the
\* connections registered now, the others lose the connections that were removed
Awaited(old, started, tm) ==
  {[c EXCEPT !.watchers = @ \cap Registered(tm, c.id)] : c \in old}
    \cup {[c EXCEPT !.watchers = Registered(tm, c.id)] : c \in started}

Init ==
  /\ tasks = <<>>
  /\ sessions = <<>>
  /\ pushNotificationConfigs = <<>>
  /\ streamingConnections = <<>>
  /\ connections = <<>>
  /\ pushAttempts = <<>>
  /\ inflight = {}
  /\ scheduled = <<>>
  /\ statusLog = <<>>
  /\ eventLog = <<>>
  /\ lastOp = Op("new TaskManager", "", NoError)
  /\ nCalls = 0

\* no request handler runs while a process.nextTick callback is queued
Idle == scheduled = <<>>

\* the store, the awaited invocations and the call count after a call with outcome out
Apply(out) ==
  /\ Install(out.tm)
  /\ inflight' = Awaited(inflight, out.calls, out.tm)
  /\ nCalls' = IF out.tm # TM \/ out.calls # {} THEN nCalls + 1 ELSE nCalls

\* TaskManager.createTask called on the engine
CreateTask(id, sessionId, message) ==
  /\ Idle
  /\ LET r == createTask(TM, sessions, id, sessionId, message) IN
       /\ Apply(Outcome(r.tm, r.error, {}))
       /\ sessions' = r.sessions
       /\ lastOp' = Op("createTask", id, r.error)
  /\ UNCHANGED scheduled

\* TaskManager.processTask called on the engine, up to its await
ProcessTask(id) ==
  /\ Idle
  /\ LET r == processTask(TM, id, nCalls + 1) IN
       /\ Apply(r)
       /\ lastOp' = OpOf("processTask", id, r)
  /\ UNCHANGED <<sessions, scheduled>>

\* the awaited skill.process returns: processTask applies the result
ProcessTaskResolves(call, result) ==
  /\ Idle
  /\ call.fn = "process"
  /\ result.ok
  /\ LET tm == processTaskResolved(TM, call.id, result) IN
       /\ Install(tm)
       /\ inflight' = Awaited(inflight \ {call}, {}, tm)
       /\ lastOp' = OpSettled("processTask", call, result,
                              IF call.id \in DOMAIN tasks THEN NoError ELSE NotFound)
  /\ UNCHANGED <<sessions, scheduled, nCalls>>

\* the awaited skill.process throws: processTask marks the task failed and rethrows
ProcessTaskRejects(call, result) ==
  /\ Idle
  /\ call.fn = "process"
  /\ ~result.ok
  /\ LET tm == processTaskRejected(TM, call.id, result.error) IN
       /\ Install(tm)
       /\ inflight' = Awaited(inflight \ {call}, {}, tm)
       /\ lastOp' = OpSettled("processTask", call, result,
                              IF call.id \in DOMAIN tasks THEN PlainError(result.error)
                              ELSE NotFound)
  /\ UNCHANGED <<sessions, scheduled, nCalls>>

\* TaskManager.continueTask called on the engine, up to its await
ContinueTask(id, userMessage) ==
  /\ Idle
  /\ LET r == continueTask(TM, id, userMessage, nCalls + 1) IN
       /\ Apply(r)
       /\ lastOp' = OpOf("continueTask", id, r)
  /\ UNCHANGED <<sessions, scheduled>>

InvalidParams(text) == createJsonRpcError(INVALID_PARAMS, text)

\* tasks/cancel
handleTasksCancel(params) ==
  /\ Idle
  /\ IF params.id = ""
       THEN /\ lastOp' = Op("tasks/cancel", params.id, InvalidParams(TxtMissingParams))
            /\ UNCHANGED <<tasks, streamingConnections, connections,
                           pushNotificationConfigs, pushAttempts, statusLog, eventLog, inflight, nCalls>>
       ELSE LET r == cancelTask(TM, params.id) IN
              /\ Apply(r)
              /\ lastOp' = Op("cancelTask", params.id, r.error)
  /\ UNCHANGED <<sessions, scheduled>>

\* the parameters of tasks/send and tasks/sendSubscribe
SendParams ==
  [id : TaskIds, message : UserMessages, sessionId : {NoSession} \cup SessionIds,
   pushNotification : {Null, PushConfig}]
    \cup [id : {""}, message : {MsgAnalyze}, sessionId : {NoSession}, pushNotification : {Null}]
    \cup [id : TaskIds,
          message : {Null, MsgNoParts, MsgBadFile, MsgEmptyFile, MsgBadRole, MsgBadPart},
          sessionId : {NoSession},
          pushNotification : {Null}]

\* the checks both handlers make first: the error thrown, or NoError
ValidateSend(params) ==
  IF params.id = "" \/ params.message = Null THEN InvalidParams(TxtMissingParams)
  ELSE IF ~validateMessage(params.message) THEN InvalidParams(TxtInvalidMessage)
  ELSE NoError

Callback(fn, id, message) == [fn |-> fn, id |-> id, message |-> message]

\* createTask and setPushNotificationConfig for a task id that is new
CreateFromParams(tm, sess, params) ==
  LET r == createTask(tm, sess, params.id, params.sessionId, params.message) IN
    IF params.pushNotification # Null
      THEN [r EXCEPT !.tm = setPushNotificationConfig(r.tm, params.id, params.pushNotification)]
      ELSE r

\* tasks/send without the handler's own state check: every existing task is
\* handed to continueTask
handleTasksSendNoStateCheck(params) ==
  /\ Idle
  /\ IF ValidateSend(params) # NoError
       THEN /\ lastOp' = Op("tasks/send", params.id, ValidateSend(params))
            /\ UNCHANGED <<tasks, sessions, pushNotificationConfigs, streamingConnections,
                           connections, pushAttempts, inflight, scheduled, statusLog, eventLog, nCalls>>
     ELSE IF params.id \in DOMAIN tasks
       THEN LET r == continueTask(TM, params.id, params.message, nCalls + 1) IN
              /\ Apply(r)
              /\ lastOp' = OpOf("tasks/send", params.id, r)
              /\ UNCHANGED <<sessions, scheduled>>
     ELSE LET r == CreateFromParams(TM, sessions, params) IN
            /\ Apply(Outcome(r.tm, r.error, {}))
            /\ sessions' = r.sessions
            /\ scheduled' = Append(scheduled, Callback("processTask", params.id, Null))
            /\ lastOp' = Op("tasks/send", params.id, NoError)

\* tasks/send
handleTasksSend(params) ==
  /\ Idle
  /\ IF ValidateSend(params) # NoError
       THEN /\ lastOp' = Op("tasks/send", params.id, ValidateSend(params))
            /\ UNCHANGED <<tasks, sessions, pushNotificationConfigs, streamingConnections,
                           connections, pushAttempts, inflight, scheduled, statusLog, eventLog, nCalls>>
     ELSE IF params.id \in DOMAIN tasks
       THEN IF getTask(TM, params.id, 0).status.state = "input-required"
              THEN LET r == continueTask(TM, params.id, params.message, nCalls + 1) IN
                     /\ Apply(r)
                     /\ lastOp' = OpOf("tasks/send", params.id, r)
                     /\ UNCHANGED <<sessions, scheduled>>
              ELSE /\ lastOp' = Op("tasks/send", params.id,
                                   createJsonRpcError(INVALID_TASK_STATE, TxtExistsNotWaiting))
                   /\ UNCHANGED <<tasks, sessions, pushNotificationConfigs,
                                  streamingConnections, connections, pushAttempts, inflight,
                                  scheduled, statusLog, eventLog, nCalls>>
     ELSE LET r == CreateFromParams(TM, sessions, params) IN
            /\ Apply(Outcome(r.tm, r.error, {}))
            /\ sessions' = r.sessions
            /\ scheduled' = Append(scheduled, Callback("processTask", params.id, Null))
            /\ lastOp' = Op("tasks/send", params.id, NoError)

\* the connection object the next streaming request creates
NextConnection == Cardinality(DOMAIN connections) + 1

\* tasks/sendSubscribe that starts processTask for a new task before it attaches
\* the connection
handleTasksSendSubscribeLate(params) ==
  /\ Idle
  /\ IF ValidateSend(params) # NoError
       THEN /\ lastOp' = Op("tasks/sendSubscribe", params.id, ValidateSend(params))
            /\ UNCHANGED <<tasks, sessions, pushNotificationConfigs, streamingConnections,
                           connections, pushAttempts, inflight, scheduled, statusLog, eventLog, nCalls>>
     ELSE
       /\ NextConnection <= MaxConn
       /\ LET c == NextConnection
              created == NewConnection(TM, c, params.id)
          IN IF params.id \in DOMAIN tasks
               THEN LET r == addStreamingConnection(created, params.id, c)
                        waiting == getTask(TM, params.id, 0).status.state = "input-required"
                    IN /\ Apply(r)
                       /\ scheduled' = IF waiting
                                         THEN Append(scheduled,
                                                Callback("continueTask", params.id, params.message))
                                         ELSE scheduled
                       /\ lastOp' = Op("tasks/sendSubscribe", params.id, NoError)
                       /\ UNCHANGED sessions
               ELSE LET r == CreateFromParams(created, sessions, params)
                        started == processTask(r.tm, params.id, nCalls + 1)
                        a == addStreamingConnection(started.tm, params.id, c)
                    IN /\ Apply(Outcome(a.tm, NoError, started.calls))
                       /\ sessions' = r.sessions
                       /\ scheduled' = scheduled
                       /\ lastOp' = Op("tasks/sendSubscribe", params.id, NoError)

\* tasks/sendSubscribe
handleTasksSendSubscribe(params) ==
  /\ Idle
  /\ IF ValidateSend(params) # NoError
       THEN /\ lastOp' = Op("tasks/sendSubscribe", params.id, ValidateSend(params))
            /\ UNCHANGED <<tasks, sessions, pushNotificationConfigs, streamingConnections,
                           connections, pushAttempts, inflight, scheduled, statusLog, eventLog, nCalls>>
     ELSE
       /\ NextConnection <= MaxConn
       /\ LET c == NextConnection
              created == NewConnection(TM, c, params.id)
          IN IF params.id \in DOMAIN tasks
               THEN LET r == addStreamingConnection(created, params.id, c)
                        waiting == getTask(TM, params.id, 0).status.state = "input-required"
                    IN /\ Apply(r)
                       /\ scheduled' = IF waiting
                                         THEN Append(scheduled,
                                                Callback("continueTask", params.id, params.message))
                                         ELSE scheduled
                       /\ lastOp' = Op("tasks/sendSubscribe", params.id, NoError)
                       /\ UNCHANGED sessions
               ELSE LET r == CreateFromParams(created, sessions, params)
                        a == addStreamingConnection(r.tm, params.id, c)
                    IN /\ Apply(a)
                       /\ sessions' = r.sessions
                       /\ scheduled' = Append(scheduled, Callback("processTask", params.id, Null))
                       /\ lastOp' = Op("tasks/sendSubscribe", params.id, NoError)

\* tasks/resubscribe without the getTask lookup that precedes the connection
handleTasksResubscribeNoLookup(params) ==
  /\ Idle
  /\ IF params.id = ""
       THEN /\ lastOp' = Op("tasks/resubscribe", params.id, InvalidParams(TxtMissingParams))
            /\ UNCHANGED <<tasks, streamingConnections, connections,
                           pushNotificationConfigs, pushAttempts, statusLog, eventLog, inflight, nCalls>>
       ELSE /\ NextConnection <= MaxConn
            /\ LET c == NextConnection
                   r == addStreamingConnection(NewConnection(TM, c, params.id), params.id, c)
               IN /\ Apply(r)
                  /\ lastOp' = Op("tasks/resubscribe", params.id, r.error)
  /\ UNCHANGED <<sessions, scheduled>>

\* tasks/resubscribe
handleTasksResubscribe(params) ==
  /\ Idle
  /\ IF params.id = "" \/ params.id \notin DOMAIN tasks
       THEN /\ lastOp' = Op("tasks/resubscribe", params.id,
                            IF params.id = "" THEN InvalidParams(TxtMissingParams) ELSE NotFound)
            /\ UNCHANGED <<tasks, streamingConnections, connections,
                           pushNotificationConfigs, pushAttempts, statusLog, eventLog, inflight, nCalls>>
       ELSE /\ NextConnection <= MaxConn
            /\ LET c == NextConnection
                   r == addStreamingConnection(NewConnection(TM, c, params.id), params.id, c)
               IN /\ Apply(r)
                  /\ lastOp' = Op("tasks/resubscribe", params.id, r.error)
  /\ UNCHANGED <<sessions, scheduled>>

\* the client closes the stream: res.on('close') removes the connection
Disconnect(c) ==
  /\ Idle
  /\ c \in DOMAIN connections
  /\ ~connections[c].closed
  /\ LET closed == [TM EXCEPT !.connections[c].closed = TRUE]
         tm == removeStreamingConnection(closed, connections[c].taskId, c)
     IN /\ Install(tm)
        /\ inflight' = Awaited(inflight, {}, tm)
  /\ lastOp' = Op("close", connections[c].taskId, NoError)
  /\ UNCHANGED <<sessions, scheduled, nCalls>>

\* the callback a handler queued with process.nextTick runs (its catch logs the error)
RunNextTick ==
  /\ scheduled # <<>>
  /\ LET cb == Head(scheduled)
         r == IF cb.fn = "processTask"
                THEN processTask(TM, cb.id, nCalls + 1)
                ELSE continueTask(TM, cb.id, cb.message, nCalls + 1)
     IN /\ Apply(r)
        /\ lastOp' = OpOf(cb.fn, cb.id, r)
  /\ scheduled' = Tail(scheduled)
  /\ UNCHANGED sessions

\* the TaskManager's fields and the history variables kept with them
store == <<tasks, streamingConnections, connections, pushNotificationConfigs, pushAttempts,
           statusLog, eventLog>>

\* tasks/get
handleTasksGet(params) ==
  /\ Idle
  /\ lastOp' = Op("tasks/get", params.id,
                  IF params.id = "" THEN InvalidParams(TxtMissingParams)
                  ELSE IF params.id \notin DOMAIN tasks THEN NotFound
                  ELSE NoError)
  /\ UNCHANGED <<store, sessions, inflight, scheduled, nCalls>>

\* tasks/pushNotification/set
handleTasksPushNotificationSet(params) ==
  /\ Idle
  /\ IF params.id = "" \/ params.pushNotificationConfig = Null
       THEN /\ lastOp' = Op("tasks/pushNotification/set", params.id,
                            InvalidParams(TxtMissingParams))
            /\ UNCHANGED <<store, inflight, nCalls>>
     ELSE IF params.id \notin DOMAIN tasks
       THEN /\ lastOp' = Op("tasks/pushNotification/set", params.id, NotFound)
            /\ UNCHANGED <<store, inflight, nCalls>>
     ELSE /\ Apply(Outcome(setPushNotificationConfig(TM, params.id,
                                                     params.pushNotificationConfig),
                           NoError, {}))
          /\ lastOp' = Op("tasks/pushNotification/set", params.id, NoError)
  /\ UNCHANGED <<sessions, scheduled>>

\* tasks/pushNotification/get
handleTasksPushNotificationGet(params) ==
  /\ Idle
  /\ lastOp' = Op("tasks/pushNotification/get", params.id,
                  IF params.id = "" THEN InvalidParams(TxtMissingParams)
                  ELSE IF params.id \notin DOMAIN tasks THEN NotFound
                  ELSE NoError)
  /\ UNCHANGED <<store, sessions, inflight, scheduled, nCalls>>

\* the webhook answers a post that was started
PushDelivered(i) ==
  /\ Idle
  /\ pushAttempts[i].outcome = "pending"
  /\ Install(postSettled(TM, i, TRUE))
  /\ lastOp' = Op("sendPushNotification", pushAttempts[i].taskId, NoError)
  /\ UNCHANGED <<sessions, inflight, scheduled, nCalls>>

\* a post that was started fails: the catch of sendPushNotification logs the error
PushFailed(i) ==
  /\ Idle
  /\ pushAttempts[i].outcome = "pending"
  /\ Install(postSettled(TM, i, FALSE))
  /\ lastOp' = Op("sendPushNotification", pushAttempts[i].taskId, NoError)
  /\ UNCHANGED <<sessions, inflight, scheduled, nCalls>>

\* ------------------------------------------- direct calls of the mutators
\* TaskManager.setPushNotificationConfig called on the engine; a null config clears
SetPushNotificationConfig(id, config) ==
  /\ Idle
  /\ IF id \notin DOMAIN tasks
       THEN /\ lastOp' = Op("setPushNotificationConfig", id, NotFound)
            /\ UNCHANGED <<store, inflight, nCalls>>
       ELSE /\ Apply(Outcome(setPushNotificationConfig(TM, id, config), NoError, {}))
            /\ lastOp' = [Op("setPushNotificationConfig", id, NoError) EXCEPT
                            !.result = [id |-> id, pushNotificationConfig |-> config]]
  /\ UNCHANGED <<sessions, scheduled>>

\* TaskManager.getPushNotificationConfig called on the engine
GetPushNotificationConfig(id) ==
  /\ Idle
  /\ lastOp' = IF id \notin DOMAIN tasks
                 THEN Op("getPushNotificationConfig", id, NotFound)
                 ELSE [Op("getPushNotificationConfig", id, NoError) EXCEPT
                         !.result = getPushNotificationConfig(TM, id)]
  /\ UNCHANGED <<store, sessions, inflight, scheduled, nCalls>>

DirectStatuses ==
  { createTaskStatus("input-required", AgentText(TxtNeedInput)),
    createTaskStatus("input-required", AgentText(TxtRunBatch)),
    createTaskStatus("unknown", Null) }

\* no skill invocation of the task is awaited
Quiescent(id) == \A call \in inflight : call.id # id

\* TaskManager.updateTaskStatus called on the engine by a caller outside it,
\* while the engine itself is not processing the task
UpdateTaskStatus(id, newStatus) ==
  /\ Idle
  /\ Quiescent(id)
  /\ IF id \in DOMAIN tasks
       THEN /\ Apply(Outcome(updateTaskStatus(TM, id, newStatus), NoError, {}))
            /\ lastOp' = Op("updateTaskStatus", id, NoError)
       ELSE /\ lastOp' = Op("updateTaskStatus", id, NotFound)
            /\ UNCHANGED <<tasks, streamingConnections, connections,
                           pushNotificationConfigs, pushAttempts, statusLog, eventLog, inflight, nCalls>>
  /\ UNCHANGED <<sessions, scheduled>>

\* TaskManager.addStreamingConnection called on the engine with a new connection
AddStreamingConnection(id) ==
  /\ Idle
  /\ NextConnection <= MaxConn
  /\ LET c == NextConnection
         r == addStreamingConnection(NewConnection(TM, c, id), id, c)
     IN /\ Apply(r)
        /\ lastOp' = [Op("addStreamingConnection", id, r.error) EXCEPT !.call = c]
  /\ UNCHANGED <<sessions, scheduled>>

\* TaskManager.addArtifacts called on the engine by a caller outside it
AddArtifacts(id, artifacts) ==
  /\ Idle
  /\ Quiescent(id)
  /\ IF id \in DOMAIN tasks
       THEN /\ Apply(Outcome(addArtifacts(TM, id, artifacts), NoError, {}))
            /\ lastOp' = [Op("addArtifacts", id, NoError) EXCEPT !.call = artifacts]
       ELSE /\ lastOp' = [Op("addArtifacts", id, NotFound) EXCEPT !.call = artifacts]
            /\ UNCHANGED <<tasks, streamingConnections, connections,
                           pushNotificationConfigs, pushAttempts, statusLog, eventLog, inflight, nCalls>>
  /\ UNCHANGED <<sessions, scheduled>>

\* the hourly timer calls cleanupExpiredTasks; the tasks of `old` are those
\* whose status is older than maxAge by then
SweepExpiredTasks(old) ==
  /\ Idle
  /\ Apply(Outcome(cleanupExpiredTasksOld(TM, old), NoError, {}))
  /\ lastOp' = Op("cleanupExpiredTasks", "", NoError)
  /\ UNCHANGED <<sessions, scheduled>>

\* the awaited skill.continueOrchestration returns: continueTask applies the result
ContinueTaskResolves(call, result) ==
  /\ Idle
  /\ call.fn = "continueOrchestration"
  /\ result.ok
  /\ LET tm == continueTaskResolved(TM, call.id, result) IN
       /\ Install(tm)
       /\ inflight' = Awaited(inflight \ {call}, {}, tm)
       /\ lastOp' = OpSettled("continueTask", call, result, NoError)
  /\ UNCHANGED <<sessions, scheduled, nCalls>>

\* the awaited skill.continueOrchestration throws: continueTask has no catch
ContinueTaskRejects(call, result) ==
  /\ Idle
  /\ call.fn = "continueOrchestration"
  /\ ~result.ok
  /\ inflight' = inflight \ {call}
  /\ lastOp' = OpSettled("continueTask", call, result, PlainError(result.error))
  /\ UNCHANGED <<store, sessions, scheduled, nCalls>>

\* ------------------------------------------------- determineSkill called alone
\* parts a status message can carry: texts with keywords of one or of two
\* skills, in either case, a text with none, and parts that are not text
RoutedParts ==
  { createTextPart(text) :
      text \in {TxtAnalyzeThis, TxtRunBatch, TxtPhotoJson, TxtBatchSentiment, TxtToCsv,
                TxtBlank, TxtImageDone} }
    \cup { createDataPart("report"),
           createFilePart([bytes |-> Null, uri |-> <<"https://x/f">>]) }

RECURSIVE PartLists(_)
PartLists(n) ==
  IF n = 0 THEN {<<>>}
  ELSE LET shorter == PartLists(n - 1) IN
    shorter \cup { Append(parts, part) : parts \in shorter, part \in RoutedParts }

\* task objects: any stored state, a message or none, metadata.skill set or not
RoutedTasks ==
  { [createTaskObject("t1", createTaskStatus(state, message), NoSession)
       EXCEPT !.metadata.skill = skill] :
      state \in {"submitted", "input-required"},
      message \in {Null} \cup { createMessage("user", parts) : parts \in PartLists(MaxParts) },
      skill \in {NoSkill, "image-processing", "task-orchestration"} }

DetermineSkill(task) ==
  /\ Idle
  /\ lastOp' = [Op("determineSkill", task.id, NoError)
                  EXCEPT !.call = task, !.result = determineSkill(task)]
  /\ UNCHANGED <<store, sessions, inflight, scheduled, nCalls>>

\* ------------------------------------------------------- the streaming client
\* the task state sendTaskWithStreaming keeps while it reads the stream
ClientTaskState(id) == [id |-> id, status |-> Null, artifacts |-> <<>>, history |-> <<>>]

\* Array.prototype.find over the merged artifacts, as a position: 0 when none
FindByIndex(list, index) ==
  IF \E k \in 1..Len(list) : list[k].index = index
    THEN CHOOSE k \in 1..Len(list) :
           /\ list[k].index = index
           /\ \A h \in 1..(k - 1) : list[h].index # index
    ELSE 0

FindByName(list, name) ==
  IF \E k \in 1..Len(list) : list[k].name = name
    THEN CHOOSE k \in 1..Len(list) :
           /\ list[k].name = name
           /\ \A h \in 1..(k - 1) : list[h].name # name
    ELSE 0

\* a client that looks the artifact up by its name
processStreamingResultByName(taskState, result) ==
  LET withStatus == IF result.status # Null
                      THEN [taskState EXCEPT !.status = result.status]
                      ELSE taskState
  IN IF result.artifact = Null THEN withStatus
     ELSE
       LET artifact == result.artifact
           at == FindByName(withStatus.artifacts, artifact.name)
           list == IF at = 0
                     THEN Append(withStatus.artifacts,
                                 [index |-> artifact.index, name |-> artifact.name,
                                  parts |-> <<>>, isComplete |-> FALSE])
                     ELSE withStatus.artifacts
           k == IF at = 0 THEN Len(list) ELSE at
       IN [withStatus EXCEPT !.artifacts =
             [list EXCEPT ![k] =
                [@ EXCEPT !.name = artifact.name,
                          !.parts = IF artifact.append THEN @ \o artifact.parts
                                    ELSE artifact.parts,
                          !.isComplete = @ \/ artifact.lastChunk]]]

\* A2AStreamingClient.processStreamingResult: the task state after the event
processStreamingResult(taskState, result) ==
  LET withStatus == IF result.status # Null
                      THEN [taskState EXCEPT !.status = result.status]
                      ELSE taskState
  IN IF result.artifact = Null THEN withStatus
     ELSE
       LET artifact == result.artifact
           at == FindByIndex(withStatus.artifacts, artifact.index)
           list == IF at = 0
                     THEN Append(withStatus.artifacts,
                                 [index |-> artifact.index, name |-> artifact.name,
                                  parts |-> <<>>, isComplete |-> FALSE])
                     ELSE withStatus.artifacts
           k == IF at = 0 THEN Len(list) ELSE at
       IN [withStatus EXCEPT !.artifacts =
             [list EXCEPT ![k] =
                [@ EXCEPT !.name = artifact.name,
                          !.parts = IF artifact.append THEN @ \o artifact.parts
                                    ELSE artifact.parts,
                          !.isComplete = @ \/ artifact.lastChunk]]]

\* the events of a stream: artifacts that share an index under two names and a
\* name under two indexes, appended or not, last chunk or not, and a status
StreamResults ==
  { [status |-> Null,
     artifact |-> [createArtifact(a.name, <<createTextPart(a.text)>>)
                     EXCEPT !.index = a.index, !.append = append, !.lastChunk = lastChunk]] :
      a \in { [index |-> 0, name |-> "notes.txt", text |-> TxtAnalyzeThis],
              [index |-> 0, name |-> "report.json", text |-> TxtRunBatch],
              [index |-> 1, name |-> "notes.txt", text |-> TxtBlank] },
      append \in BOOLEAN, lastChunk \in BOOLEAN }
    \cup { [status |-> createTaskStatus("working", Null), artifact |-> Null] }

\* the task state the client holds now
TaskStateNow ==
  IF lastOp.op = "processStreamingResult" THEN lastOp.result ELSE ClientTaskState("t1")

\* the stream's data handler passes one parsed event to processStreamingResult
ProcessStreamingResult(result) ==
  /\ Idle
  /\ nCalls' = nCalls + 1
  /\ lastOp' = [Op("processStreamingResult", "t1", NoError)
                  EXCEPT !.call = result,
                         !.result = processStreamingResult(TaskStateNow, result)]
  /\ UNCHANGED <<store, sessions, inflight, scheduled>>

\* ------------------------------------------------------------ the push client
\* new A2APushClient, with what the model keeps beside its pendingTasks: whether
\* tasks/send was posted and answered, the promise sendTaskAndWait returned,
\* the calls of the completion callback, the posts of the server that are on
\* their way to the webhook and those it received
NewPushClient ==
  [pendingTasks |-> <<>>, requested |-> FALSE, responded |-> FALSE,
   promise |-> [state |-> "none", value |-> Null], callbacks |-> 0,
   posts |-> <<>>, received |-> <<>>]

\* the body the server posts to the webhook for a status
Notification(taskId, status) == [taskId |-> taskId, status |-> status]

\* taskInfo.callback of sendTaskAndWait: clearTimeout, then resolve(status);
\* resolving a settled promise does nothing
Callback_(client, status) ==
  [client EXCEPT !.callbacks = @ + 1,
                 !.promise = IF @.state = "pending"
                               THEN [state |-> "resolved", value |-> status]
                               ELSE @]

\* A2APushClient.handlePushNotification
handlePushNotification(client, notification) ==
  LET taskId == notification.taskId
      status == notification.status
  IN IF taskId \notin DOMAIN client.pendingTasks THEN client
     ELSE IF status.state \in {"completed", "failed", "canceled"}
       THEN LET called == IF client.pendingTasks[taskId].callback
                            THEN Callback_(client, status)
                            ELSE client
            IN [called EXCEPT !.pendingTasks = MapRemove(@, taskId)]
       ELSE [client EXCEPT !.pendingTasks[taskId].lastStatus = status]

\* the statuses the server installs for a task created by tasks/send, one post
\* each: working, then the skill's outcome, or canceled and then the outcome
\* of the skill that was still awaited
ServerPosts ==
  { <<Notification("t1", createTaskStatus("working", Null)),
      Notification("t1", createTaskStatus(final, Null))>> :
      final \in {"completed", "failed", "canceled"} }
    \cup { <<Notification("t1", createTaskStatus("working", Null)),
             Notification("t1", createTaskStatus("canceled", Null)),
             Notification("t1", createTaskStatus(final, Null))>> :
             final \in {"completed", "failed"} }

\* the push client as it is now
PushClientNow ==
  IF lastOp.op \in {"sendTaskAndWait", "response", "webhook", "timeout", "lost"}
    THEN lastOp.result ELSE NewPushClient

ClientStep(name, client) ==
  /\ Idle
  /\ lastOp' = [Op(name, "t1", NoError) EXCEPT !.result = client]
  /\ UNCHANGED <<store, sessions, inflight, scheduled, nCalls>>

\* sendTaskAndWait posts tasks/send; the server will post `posts` to the webhook
SendTaskAndWait(posts) ==
  /\ ~PushClientNow.requested
  /\ ClientStep("sendTaskAndWait", [PushClientNow EXCEPT !.requested = TRUE, !.posts = posts])

\* the answer to tasks/send arrives: sendTaskWithPushNotification records the
\* task as pending and, in the same turn, sendTaskAndWait sets the callback
\* and returns its promise
ResponseArrives ==
  /\ PushClientNow.requested
  /\ ~PushClientNow.responded
  /\ ClientStep("response",
       [PushClientNow EXCEPT
          !.responded = TRUE,
          !.pendingTasks = MapPut(@, "t1", [callback |-> TRUE,
                                           lastStatus |-> createTaskStatus("submitted", Null)]),
          !.promise = [state |-> "pending", value |-> Null]])

\* the next post of the server reaches the webhook
WebhookReceives ==
  /\ PushClientNow.posts # <<>>
  /\ LET notification == Head(PushClientNow.posts)
         client == [PushClientNow EXCEPT !.posts = Tail(@), !.received = Append(@, notification)]
     IN ClientStep("webhook", handlePushNotification(client, notification))

\* the next post of the server fails, which the server only logs
PostLost ==
  /\ PushClientNow.posts # <<>>
  /\ ClientStep("lost", [PushClientNow EXCEPT !.posts = Tail(@)])

\* the timer of sendTaskAndWait fires: it was not cleared by the callback
TimeoutFires ==
  /\ PushClientNow.promise.state = "pending"
  /\ ClientStep("timeout",
       [PushClientNow EXCEPT !.pendingTasks = MapRemove(@, "t1"),
                             !.promise = [state |-> "rejected", value |-> Null]])

\* --------------------------------------------- what a call hands to its caller
\* the caller holds the object the engine stores
Reference(id) == [kind |-> "reference", id |-> id]
\* the caller holds an object of its own
Copy(task) == [kind |-> "copy", task |-> task]

\* a caller writes to the task object it was handed
Scribble(task) == [task EXCEPT !.status = createTaskStatus("completed", Null), !.artifacts = <<>>]

\* createTask: `return task` is the object that was stored under the id
CreateTaskReturns(id, message) ==
  /\ Idle
  /\ LET r == createTask(TM, sessions, id, NoSession, message) IN
       /\ Apply(Outcome(r.tm, r.error, {}))
       /\ sessions' = r.sessions
       /\ lastOp' = [Op("createTask", id, r.error) EXCEPT
                       !.result = IF r.error = NoError THEN Reference(id) ELSE Null]
  /\ UNCHANGED scheduled

\* getTask: `return taskCopy`
GetTaskReturns(id, historyLength) ==
  /\ Idle
  /\ lastOp' = IF id \in DOMAIN tasks
                 THEN [Op("getTask", id, NoError) EXCEPT
                         !.result = Copy(getTask(TM, id, historyLength))]
                 ELSE Op("getTask", id, NotFound)
  /\ UNCHANGED <<store, sessions, inflight, scheduled, nCalls>>

\* updateTaskStatus: `return task` is the object found in this.tasks
UpdateTaskStatusReturns(id, newStatus) ==
  /\ Idle
  /\ Quiescent(id)
  /\ id \in DOMAIN tasks
  /\ Apply(Outcome(updateTaskStatus(TM, id, newStatus), NoError, {}))
  /\ lastOp' = [Op("updateTaskStatus", id, NoError) EXCEPT !.result = Reference(id)]
  /\ UNCHANGED <<sessions, scheduled>>

\* addArtifacts: `return task` is the object found in this.tasks
AddArtifactsReturns(id, artifacts) ==
  /\ Idle
  /\ Quiescent(id)
  /\ id \in DOMAIN tasks
  /\ Apply(Outcome(addArtifacts(TM, id, artifacts), NoError, {}))
  /\ lastOp' = [Op("addArtifacts", id, NoError) EXCEPT !.result = Reference(id)]
  /\ UNCHANGED <<sessions, scheduled>>

\* cancelTask: `return this.getTask(taskId)`
CancelTaskReturns(id) ==
  /\ Idle
  /\ LET r == cancelTask(TM, id) IN
       /\ Apply(r)
       /\ lastOp' = [Op("cancelTask", id, r.error) EXCEPT
                       !.result = IF r.error = NoError THEN Copy(getTask(r.tm, id, 0)) ELSE Null]
  /\ UNCHANGED <<sessions, scheduled>>

\* the caller of the last call writes to the task object the call returned
CallerWrites ==
  /\ Idle
  /\ lastOp.op \in {"createTask", "getTask", "updateTaskStatus", "addArtifacts", "cancelTask"}
  /\ lastOp.result # Null
  /\ IF lastOp.result.kind = "reference"
       THEN /\ lastOp.id \in DOMAIN tasks
            /\ tasks' = [tasks EXCEPT ![lastOp.id] = Scribble(@)]
            /\ lastOp' = [Op("write", lastOp.id, NoError) EXCEPT !.result = lastOp.result]
       ELSE /\ tasks' = tasks
            /\ lastOp' = [Op("write", lastOp.id, NoError) EXCEPT
                            !.result = Copy(Scribble(lastOp.result.task))]
  /\ UNCHANGED <<sessions, pushNotificationConfigs, streamingConnections, connections,
                 pushAttempts, inflight, scheduled, statusLog, eventLog, nCalls>>

\* the caller of the last call stores orchestration state in the metadata of the
\* task object the call returned, which is the stored one
CallerWritesOrchestration(orchestration) ==
  /\ Idle
  /\ lastOp.result # Null
  /\ lastOp.op \in {"createTask", "updateTaskStatus"}
  /\ lastOp.result = Reference(lastOp.id)
  /\ lastOp.id \in DOMAIN tasks
  /\ tasks[lastOp.id].metadata.orchestration = Null
  /\ tasks' = [tasks EXCEPT ![lastOp.id].metadata.orchestration = orchestration]
  /\ lastOp' = Op("write", lastOp.id, NoError)
  /\ UNCHANGED <<sessions, pushNotificationConfigs, streamingConnections, connections,
                 pushAttempts, inflight, scheduled, statusLog, eventLog, nCalls>>

\* the caller of the last call names a skill in the metadata of the task object
\* the call returned, which is the stored one
CallerWritesSkill(skillId) ==
  /\ Idle
  /\ lastOp.result # Null
  /\ lastOp.op \in {"createTask", "updateTaskStatus"}
  /\ lastOp.result = Reference(lastOp.id)
  /\ lastOp.id \in DOMAIN tasks
  /\ tasks[lastOp.id].metadata.skill = NoSkill
  /\ tasks' = [tasks EXCEPT ![lastOp.id].metadata.skill = skillId]
  /\ lastOp' = Op("write", lastOp.id, NoError)
  /\ UNCHANGED <<sessions, pushNotificationConfigs, streamingConnections, connections,
                 pushAttempts, inflight, scheduled, statusLog, eventLog, nCalls>>

\* the skill writes to the task object processTask passed to it
SkillWrites(call) ==
  /\ Idle
  /\ call \in inflight
  /\ call.task # Scribble(call.task)
  /\ inflight' = (inflight \ {call}) \cup {[call EXCEPT !.task = Scribble(@)]}
  /\ lastOp' = Op("write", call.id, NoError)
  /\ UNCHANGED <<store, sessions, scheduled, nCalls>>

\* what task-orchestration writes to the task object it was handed: process
\* stores its plan in metadata.orchestration, requestUserInput sets the status
SkillAsksForInput(task) ==
  [task EXCEPT !.status = createTaskStatus("input-required", AgentText(TxtStepNeedsInput)),
               !.metadata.orchestration = [steps |-> <<FALSE, TRUE>>, currentStep |-> 0]]

\* the awaited skill writes to the task object processTask passed to it, which
\* is the copy getTask made
SkillWritesTask(call) ==
  /\ Idle
  /\ call \in inflight
  /\ call.task # SkillAsksForInput(call.task)
  /\ inflight' = (inflight \ {call}) \cup {[call EXCEPT !.task = SkillAsksForInput(@)]}
  /\ lastOp' = Op("write", call.id, NoError)
  /\ UNCHANGED <<store, sessions, scheduled, nCalls>>

\* ---------------------------------------------------------- specifications
\* the server: its method handlers, its queued callbacks and the skills settling
Next ==
  \/ \E call \in inflight : \E result \in ProcessOutcomes(call.skillId) :
       ProcessTaskResolves(call, result)
  \/ \E call \in inflight : \E result \in ProcessOutcomes(call.skillId) :
       ProcessTaskRejects(call, result)
  \/ \E id \in TaskIds \cup UnknownIds \cup {""} : handleTasksCancel([id |-> id])
  \/ \E params \in SendParams : handleTasksSend(params)
  \/ \E params \in SendParams : handleTasksSendSubscribe(params)
  \/ \E id \in TaskIds \cup UnknownIds \cup {""} : handleTasksResubscribe([id |-> id])
  \/ \E c \in DOMAIN connections : Disconnect(c)
  \/ RunNextTick

Spec == Init /\ [][Next]_vars

\* an awaited skill invocation settles
SkillSettles ==
  \E call \in inflight : \E result \in ProcessOutcomes(call.skillId) :
    IF result.ok THEN ProcessTaskResolves(call, result) ELSE ProcessTaskRejects(call, result)

\* requests without session id and push configuration
LiveParams == {params \in SendParams : params.sessionId = NoSession /\ params.pushNotification = Null}

NextLive ==
  \/ \E call \in inflight : \E result \in ProcessOutcomes(call.skillId) :
       ProcessTaskResolves(call, result)
  \/ \E call \in inflight : \E result \in ProcessOutcomes(call.skillId) :
       ProcessTaskRejects(call, result)
  \/ \E id \in TaskIds : handleTasksCancel([id |-> id])
  \/ \E params \in LiveParams : handleTasksSend(params)
  \/ \E params \in LiveParams : handleTasksSendSubscribe(params)
  \/ \E id \in TaskIds : handleTasksResubscribe([id |-> id])
  \/ \E c \in DOMAIN connections : Disconnect(c)
  \/ RunNextTick

\* the server, given that queued callbacks are run and that every skill
\* invocation settles; a client may keep its stream open for ever
SpecLive == Init /\ [][NextLive]_vars /\ WF_vars(RunNextTick) /\ WF_vars(SkillSettles)

\* requests without session id
RpcParams == {params \in SendParams : params.sessionId = NoSession}
\* requests that fail the parameter checks
BadParams == {params \in SendParams : ValidateSend(params) # NoError}

\* the methods that answer with one JSON response, a host that calls
\* updateTaskStatus between requests, and the webhook; the streaming methods are
\* called with parameters they refuse
NextRpc ==
  \/ \E call \in inflight : \E result \in ProcessOutcomes(call.skillId) :
       ProcessTaskResolves(call, result)
  \/ \E call \in inflight : \E result \in ProcessOutcomes(call.skillId) :
       ProcessTaskRejects(call, result)
  \/ /\ nCalls < MaxCalls
     /\ \E params \in RpcParams : handleTasksSend(params)
  \/ \E params \in RpcParams :
       /\ params.id \in DOMAIN tasks
       /\ getTask(TM, params.id, 0).status.state # "input-required"
       /\ handleTasksSend(params)
  \/ \E id \in TaskIds \cup UnknownIds \cup {""} :
       handleTasksGet([id |-> id, historyLength |-> 0])
  \/ /\ nCalls < MaxCalls
     /\ \E id \in TaskIds \cup UnknownIds \cup {""} : handleTasksCancel([id |-> id])
  \/ /\ nCalls < MaxCalls
     /\ \E id \in TaskIds \cup UnknownIds \cup {""},
           config \in {Null, PushConfig, PushConfigOther} :
          handleTasksPushNotificationSet([id |-> id, pushNotificationConfig |-> config])
  \/ \E id \in TaskIds \cup UnknownIds \cup {""} : handleTasksPushNotificationGet([id |-> id])
  \/ \E params \in BadParams : handleTasksSendSubscribe(params)
  \/ handleTasksResubscribe([id |-> ""])
  \/ RunNextTick
  \/ /\ nCalls < MaxCalls
     /\ \E id \in TaskIds, newStatus \in DirectStatuses : UpdateTaskStatus(id, newStatus)

SpecRpc == Init /\ [][NextRpc]_vars

\* requests that register a push configuration
PushParams == {params \in RpcParams : params.pushNotification # Null}

\* a task with a push configuration, and the webhook answering or failing
NextPush ==
  \/ \E call \in inflight : \E result \in ProcessOutcomes(call.skillId) :
       ProcessTaskResolves(call, result)
  \/ \E call \in inflight : \E result \in ProcessOutcomes(call.skillId) :
       ProcessTaskRejects(call, result)
  \/ \E params \in PushParams : handleTasksSend(params)
  \/ \E id \in TaskIds : handleTasksCancel([id |-> id])
  \/ RunNextTick
  \/ \E i \in DOMAIN pushAttempts : PushDelivered(i)
  \/ \E i \in DOMAIN pushAttempts : PushFailed(i)

SpecPush == Init /\ [][NextPush]_vars

\* the readings of the clock
Times == {k * 500 : k \in 0..MaxTime}

\* the newest status timestamp in the store: the clock does not run backwards
Latest ==
  IF DOMAIN tasks = {} THEN 0
  ELSE CHOOSE ms \in Times :
         /\ \E id \in DOMAIN tasks : getTime(tasks[id].status.timestamp) = ms
         /\ \A id \in DOMAIN tasks : getTime(tasks[id].status.timestamp) <= ms

\* TaskManager.createTask called on the engine when the clock shows now
CreateTaskAt(id, message, now) ==
  /\ Idle
  /\ now >= Latest
  /\ LET r == createTask(TM, sessions, id, NoSession, message)
         stamped == IF r.error = NoError
                      THEN [r.tm EXCEPT !.tasks[id].status =
                              createTaskStatusAt("submitted", message, now)]
                      ELSE r.tm
     IN /\ Apply(Outcome(stamped, r.error, {}))
        /\ sessions' = r.sessions
        /\ lastOp' = Op("createTask", id, r.error)
  /\ UNCHANGED scheduled

\* TaskManager.updateTaskStatus called on the engine with a status created when
\* the clock shows now
UpdateTaskStatusAt(id, state, now) ==
  /\ Idle
  /\ id \in DOMAIN tasks
  /\ now >= Latest
  /\ Apply(Outcome(updateTaskStatus(TM, id, createTaskStatusAt(state, Null, now)), NoError, {}))
  /\ lastOp' = Op("updateTaskStatus", id, NoError)
  /\ UNCHANGED <<sessions, scheduled>>

\* TaskManager.cleanupExpiredTasks(maxAge) called when the clock shows now
CleanupExpiredTasks(now, maxAge) ==
  /\ Idle
  /\ now >= Latest
  /\ Apply(Outcome(cleanupExpiredTasks(TM, now, maxAge), NoError, {}))
  /\ lastOp' = Op("cleanupExpiredTasks", "", NoError)
  /\ UNCHANGED <<sessions, scheduled>>

\* tasks created and updated at the readings of the clock, with and without a
\* push configuration, and the maintenance sweep
NextCleanup ==
  \/ /\ nCalls < MaxCalls
     /\ \E id \in EngineIds, now \in Times : CreateTaskAt(id, MsgAnalyze, now)
  \/ /\ nCalls < MaxCalls
     /\ \E id \in TaskIds, state \in {"working", "completed", "failed", "canceled"},
           now \in Times : UpdateTaskStatusAt(id, state, now)
  \/ /\ nCalls < MaxCalls
     /\ SetPushNotificationConfig("t1", PushConfig)
  \/ \E now \in Times, maxAge \in Times : CleanupExpiredTasks(now, maxAge)

SpecCleanup == Init /\ [][NextCleanup]_vars

\* the push configuration of a task set, replaced, cleared and read on the
\* engine while the task is created, updated and canceled
NextConfig ==
  \/ /\ nCalls < MaxCalls
     /\ \E message \in UserMessages : CreateTask("t1", NoSession, message)
  \/ /\ nCalls < MaxCalls
     /\ \E id \in TaskIds \cup UnknownIds, config \in {Null, PushConfig, PushConfigOther} :
          SetPushNotificationConfig(id, config)
  \/ \E id \in TaskIds \cup UnknownIds : GetPushNotificationConfig(id)
  \/ /\ nCalls < MaxCalls
     /\ \E id \in TaskIds : handleTasksCancel([id |-> id])
  \/ /\ nCalls < MaxCalls
     /\ \E id \in TaskIds, newStatus \in DirectStatuses : UpdateTaskStatus(id, newStatus)

SpecConfig == Init /\ [][NextConfig]_vars

\* the engine's methods called by a caller that writes to what they return
NextHandedOut ==
  \/ /\ nCalls < MaxCalls
     /\ \E message \in UserMessages : CreateTaskReturns("t1", message)
  \/ \E id \in TaskIds \cup UnknownIds, historyLength \in 0..MaxHistory :
       GetTaskReturns(id, historyLength)
  \/ /\ nCalls < MaxCalls
     /\ \E id \in TaskIds, newStatus \in DirectStatuses : UpdateTaskStatusReturns(id, newStatus)
  \/ /\ nCalls < MaxCalls
     /\ \E id \in TaskIds :
          AddArtifactsReturns(id, <<createArtifact("notes.txt", <<createTextPart(TxtAnalyzeThis)>>)>>)
  \/ /\ nCalls < MaxCalls
     /\ \E id \in TaskIds : CancelTaskReturns(id)
  \/ /\ nCalls < MaxCalls
     /\ \E id \in TaskIds : ProcessTask(id)
  \/ \E call \in inflight : \E result \in ProcessOutcomes(call.skillId) :
       ProcessTaskResolves(call, result)
  \/ \E call \in inflight : \E result \in ProcessOutcomes(call.skillId) :
       ProcessTaskRejects(call, result)
  \/ CallerWrites
  \/ \E call \in inflight : SkillWrites(call)

SpecHandedOut == Init /\ [][NextHandedOut]_vars

\* determineSkill applied once to a task object drawn from RoutedTasks
InitRouting ==
  /\ tasks = <<>>
  /\ sessions = <<>>
  /\ pushNotificationConfigs = <<>>
  /\ streamingConnections = <<>>
  /\ connections = <<>>
  /\ pushAttempts = <<>>
  /\ inflight = {}
  /\ scheduled = <<>>
  /\ statusLog = <<>>
  /\ eventLog = <<>>
  /\ \E task \in RoutedTasks : lastOp = [Op("task object", task.id, NoError) EXCEPT !.call = task]
  /\ nCalls = 0

NextRouting ==
  /\ lastOp.op = "task object"
  /\ DetermineSkill(lastOp.call)

SpecRouting == InitRouting /\ [][NextRouting]_vars

\* the lists handed to addArtifacts: none, one, two artifacts in either order
ArtifactLists ==
  LET notes == createArtifact("notes.txt", <<createTextPart(TxtAnalyzeThis)>>)
      report == createArtifact("report.json", <<createDataPart("report")>>)
  IN {<<>>, <<notes>>, <<report>>, <<notes, report>>, <<report, notes>>}

\* connections are attached and artifacts added on the engine, for a task in
\* any state and for an unknown id
NextArtifacts ==
  \/ /\ nCalls < MaxCalls
     /\ CreateTask("t1", NoSession, MsgAnalyze)
  \/ /\ nCalls < MaxCalls
     /\ \E id \in TaskIds \cup UnknownIds, artifacts \in ArtifactLists : AddArtifacts(id, artifacts)
  \/ /\ nCalls < MaxCalls
     /\ \E id \in TaskIds : handleTasksCancel([id |-> id])
  \/ /\ nCalls < MaxCalls
     /\ \E id \in TaskIds : handleTasksResubscribe([id |-> id])
  \/ /\ nCalls < MaxCalls
     /\ \E id \in TaskIds \cup UnknownIds : AddStreamingConnection(id)

SpecArtifacts == Init /\ [][NextArtifacts]_vars

\* processTask is called for tasks that route to a registered skill, to an
\* unregistered one, or to none, with a subscriber and a push configuration
NextFailFast ==
  \/ /\ nCalls < MaxCalls
     /\ \E message \in UserMessages : CreateTaskReturns("t1", message)
  \/ /\ nCalls < MaxCalls
     /\ \E id \in TaskIds, newStatus \in DirectStatuses : UpdateTaskStatusReturns(id, newStatus)
  \/ \E skillId \in {"summarize", "image-processing"} : CallerWritesSkill(skillId)
  \/ /\ nCalls < MaxCalls
     /\ \E id \in TaskIds : SetPushNotificationConfig(id, PushConfig)
  \/ /\ nCalls < MaxCalls
     /\ \E id \in TaskIds : handleTasksResubscribe([id |-> id])
  \/ /\ nCalls < MaxCalls
     /\ \E id \in TaskIds \cup UnknownIds : ProcessTask(id)
  \/ \E call \in inflight : \E result \in ProcessOutcomes(call.skillId) :
       ProcessTaskResolves(call, result)
  \/ \E call \in inflight : \E result \in ProcessOutcomes(call.skillId) :
       ProcessTaskRejects(call, result)

SpecFailFast == Init /\ [][NextFailFast]_vars

\* the streaming client reads up to MaxCalls events
NextStream ==
  /\ nCalls < MaxCalls
  /\ \E result \in StreamResults : ProcessStreamingResult(result)

SpecStream == Init /\ [][NextStream]_vars

\* requests with and without a session id
SweepParams ==
  [id : TaskIds, message : {MsgAnalyze}, sessionId : {NoSession} \cup SessionIds,
   pushNotification : {Null}]

\* the server with its maintenance sweep: tasks are created, run, canceled,
\* subscribed to, swept when terminal and old, and created again
NextSweep ==
  \/ \E call \in inflight : \E result \in ProcessOutcomes(call.skillId) :
       ProcessTaskResolves(call, result)
  \/ \E call \in inflight : \E result \in ProcessOutcomes(call.skillId) :
       ProcessTaskRejects(call, result)
  \/ RunNextTick
  \/ /\ nCalls < MaxCalls
     /\ \E params \in SweepParams : handleTasksSend(params)
  \/ /\ nCalls < MaxCalls
     /\ \E params \in SweepParams : handleTasksSendSubscribe(params)
  \/ /\ nCalls < MaxCalls
     /\ \E id \in TaskIds \cup UnknownIds : handleTasksResubscribe([id |-> id])
  \/ /\ nCalls < MaxCalls
     /\ \E id \in TaskIds : handleTasksCancel([id |-> id])
  \/ /\ nCalls < MaxCalls
     /\ \E c \in DOMAIN connections : Disconnect(c)
  \/ /\ nCalls < MaxCalls
     /\ \E old \in SUBSET TaskIds : SweepExpiredTasks(old)

SpecSweep == Init /\ [][NextSweep]_vars

\* the requests the dispatcher is sent: two routings, no session id
DispatcherParams ==
  [id : TaskIds, message : {MsgAnalyze, MsgBatch}, sessionId : {NoSession},
   pushNotification : {Null}]

\* the server driven through every method of its dispatcher, while the skills
\* write to the task objects they were handed
NextDispatcher ==
  \/ \E call \in inflight : \E result \in ProcessOutcomes(call.skillId) :
       ProcessTaskResolves(call, result)
  \/ \E call \in inflight : \E result \in ProcessOutcomes(call.skillId) :
       ProcessTaskRejects(call, result)
  \/ \E call \in inflight : SkillWritesTask(call)
  \/ RunNextTick
  \/ \E params \in DispatcherParams : handleTasksSend(params)
  \/ \E params \in DispatcherParams : handleTasksSendSubscribe(params)
  \/ \E id \in TaskIds \cup UnknownIds : handleTasksGet([id |-> id, historyLength |-> 0])
  \/ \E id \in TaskIds \cup UnknownIds : handleTasksCancel([id |-> id])
  \/ \E id \in TaskIds \cup UnknownIds :
       handleTasksPushNotificationSet([id |-> id, pushNotificationConfig |-> PushConfig])
  \/ \E id \in TaskIds \cup UnknownIds : handleTasksPushNotificationGet([id |-> id])
  \/ \E id \in TaskIds \cup UnknownIds : handleTasksResubscribe([id |-> id])

SpecDispatcher == Init /\ [][NextDispatcher]_vars

\* the push client, the answer to its request and the posts of the server
\* reaching it in any order
NextPushClient ==
  \/ \E posts \in ServerPosts : SendTaskAndWait(posts)
  \/ ResponseArrives
  \/ WebhookReceives
  \/ PostLost
  \/ TimeoutFires

SpecPushClient == Init /\ [][NextPushClient]_vars

\* a task that waits for input is continued, with and without orchestration
\* state in its stored metadata
NextContinue ==
  \/ /\ nCalls < MaxCalls
     /\ \E message \in UserMessages : CreateTaskReturns("t1", message)
  \/ /\ nCalls < MaxCalls
     /\ \E id \in TaskIds, newStatus \in DirectStatuses : UpdateTaskStatusReturns(id, newStatus)
  \/ \E orchestration \in Orchestrations : CallerWritesOrchestration(orchestration)
  \/ /\ nCalls < MaxCalls
     /\ \E id \in TaskIds, userMessage \in UserMessages : ContinueTask(id, userMessage)
  \/ \E call \in {c \in inflight : c.fn = "continueOrchestration"} :
       \E result \in ContinueOutcomes(call.task) : ContinueTaskResolves(call, result)
  \/ \E call \in {c \in inflight : c.fn = "continueOrchestration"} :
       \E result \in ContinueOutcomes(call.task) : ContinueTaskRejects(call, result)
  \/ \E call \in inflight : \E result \in ProcessOutcomes(call.skillId) :
       ProcessTaskResolves(call, result)
  \/ \E call \in inflight : \E result \in ProcessOutcomes(call.skillId) :
       ProcessTaskRejects(call, result)

SpecContinue == Init /\ [][NextContinue]_vars

\* the TaskManager driven through its own methods, MaxCalls calls at most
NextEngine ==
  \/ \E call \in inflight : \E result \in ProcessOutcomes(call.skillId) :
       ProcessTaskResolves(call, result)
  \/ \E call \in inflight : \E result \in ProcessOutcomes(call.skillId) :
       ProcessTaskRejects(call, result)
  \/ /\ nCalls < MaxCalls
     /\ \E id \in EngineIds, sessionId \in {NoSession} \cup SessionIds, message \in UserMessages :
          CreateTask(id, sessionId, message)
  \/ /\ nCalls < MaxCalls
     /\ \E id \in TaskIds : ProcessTask(id)
  \/ /\ nCalls < MaxCalls
     /\ \E id \in TaskIds, userMessage \in UserMessages : ContinueTask(id, userMessage)
  \/ /\ nCalls < MaxCalls
     /\ \E id \in TaskIds : handleTasksCancel([id |-> id])
  \/ /\ nCalls < MaxCalls
     /\ \E id \in TaskIds, newStatus \in DirectStatuses : UpdateTaskStatus(id, newStatus)
  \/ /\ nCalls < MaxCalls
     /\ \E id \in TaskIds : handleTasksResubscribe([id |-> id])

SpecEngine == Init /\ [][NextEngine]_vars

\* ------------------------------------------------------------- properties
StateOf(id) == tasks[id].status.state

\* the connections registered for a task
Subscribers(id) == Registered(TM, id)

StatusEvent(status, isFinal) == [type |-> "status", data |-> status, final |-> isFinal]
ArtifactEvents(artifacts, isFinal) ==
  [i \in 1..Len(artifacts) |-> [type |-> "artifact", data |-> artifacts[i], final |-> isFinal]]

\* the last n elements of a list that has at least n
Suffix(list, n) == SubSeq(list, Len(list) - n + 1, Len(list))

\* the statuses a step installed for a task, preceded by the status it replaced
Installed(id) ==
  IF id \in DOMAIN statusLog
    THEN SubSeq(statusLog'[id], Len(statusLog[id]), Len(statusLog'[id]))
    ELSE statusLog'[id]

\* a step is a call of the named engine method for the task, returned or suspended
Called(name, id) == lastOp'.op = name /\ lastOp'.id = id

\* C1: once a task is completed, failed or canceled, no step changes its state
\* (stated as the claim states it; the code does not keep it)
C1_TerminalStateIsFinal ==
  [][\A id \in DOMAIN tasks :
       StateOf(id) \in terminalStates => tasks'[id].status.state = StateOf(id)]_vars

WasCanceled(id) == \E i \in 1..Len(statusLog[id]) : statusLog[id][i].state = "canceled"

\* C2: a task that was canceled keeps the artifact list it had then, and no
\* subscriber of it is sent an artifact event the skill returned afterwards
\* (stated as the claim states it; the code does not keep it)
C2_CanceledKeepsArtifacts ==
  [][\A id \in DOMAIN tasks :
       WasCanceled(id) =>
         /\ tasks'[id].artifacts = tasks[id].artifacts
         /\ \A c \in DOMAIN connections :
              connections[c].taskId = id =>
                \A i \in (Len(connections[c].sent) + 1)..Len(connections'[c].sent) :
                  connections'[c].sent[i].type # "artifact"]_vars

LifecycleEdges ==
  { <<"submitted", "working">>, <<"submitted", "canceled">>,
    <<"working", "completed">>, <<"working", "failed">>,
    <<"working", "input-required">>, <<"working", "canceled">>,
    <<"input-required", "working">>, <<"input-required", "canceled">> }

\* C3: every status the engine's own operations install over a submitted, working
\* or input-required status with another state follows a lifecycle edge; a task
\* starts submitted
C3_LifecycleEdges ==
  [][\A id \in DOMAIN tasks' :
       /\ id \notin DOMAIN tasks => statusLog'[id][1].state = "submitted"
       /\ lastOp'.op # "updateTaskStatus" =>
            \A i \in 1..(Len(Installed(id)) - 1) :
              LET from == Installed(id)[i].state
                  to == Installed(id)[i + 1].state
              IN (from \in {"submitted", "working", "input-required"} /\ from # to)
                   => <<from, to>> \in LifecycleEdges]_vars

\* a task went from input-required to working through continueTask and completed
C3_Witness ==
  \E id \in DOMAIN tasks :
    /\ StateOf(id) = "completed"
    /\ \E i \in 1..(Len(statusLog[id]) - 1) :
         /\ statusLog[id][i].state = "input-required"
         /\ statusLog[id][i + 1].state = "working"

\* C4: cancelTask on an unknown id throws TASK_NOT_FOUND; on a completed, failed or
\* canceled task it throws TASK_NOT_CANCELABLE and changes neither the task nor
\* its subscribers; on any other task it installs the canceled status with the
\* cancellation message
C4_CancelTask ==
  [][\A id \in TaskIds :
       Called("cancelTask", id) =>
         IF id \notin DOMAIN tasks
           THEN /\ lastOp'.error.code = TASK_NOT_FOUND
                /\ tasks' = tasks
         ELSE IF StateOf(id) \in terminalStates
           THEN /\ lastOp'.error.code = TASK_NOT_CANCELABLE
                /\ tasks' = tasks
                /\ streamingConnections' = streamingConnections
                /\ connections' = connections
         ELSE /\ lastOp'.error = NoError
              /\ tasks'[id].status = createTaskStatus("canceled", AgentText(TxtCanceled))]_vars

\* cancelTask was refused for a terminal task that has a subscriber
C4_Witness ==
  /\ lastOp.op = "cancelTask"
  /\ lastOp.error.code = TASK_NOT_CANCELABLE
  /\ lastOp.id \in DOMAIN streamingConnections

\* C5: continueTask on a task that is not input-required throws
\* INVALID_TASK_STATE whatever the message, changes no task and awaits no skill
C5_ContinueTaskRefused ==
  [][\A id \in DOMAIN tasks, userMessage \in UserMessages :
       (StateOf(id) # "input-required" /\ ContinueTask(id, userMessage)) =>
         /\ lastOp'.error = createJsonRpcError(INVALID_TASK_STATE, TxtNotWaiting)
         /\ tasks' = tasks
         /\ inflight' = inflight]_vars

\* continueTask was refused for a completed task that has artifacts
C5_Witness ==
  /\ lastOp.op = "continueTask"
  /\ lastOp.error.code = INVALID_TASK_STATE
  /\ lastOp.id \in DOMAIN tasks
  /\ StateOf(lastOp.id) = "completed"
  /\ tasks[lastOp.id].artifacts # <<>>

\* C6: after createTask with an unused id, getTask returns a submitted task whose
\* status message is the given message, without artifacts; a given session id
\* has the task id appended to its list, created when absent
C6_CreateThenGet ==
  [][\A id \in EngineIds, sessionId \in {NoSession} \cup SessionIds, message \in UserMessages :
       (id \notin DOMAIN tasks /\ CreateTask(id, sessionId, message)) =>
         /\ lastOp'.error = NoError
         /\ getTask(TM', id, 0).status = createTaskStatus("submitted", message)
         /\ getTask(TM', id, 0).artifacts = <<>>
         /\ sessions' =
              IF sessionId = NoSession THEN sessions
              ELSE IF sessionId \in DOMAIN sessions
                THEN [sessions EXCEPT ![sessionId] = Append(@, id)]
              ELSE MapPut(sessions, sessionId, <<id>>)]_vars

\* two tasks were created in one session
C6_Witness ==
  /\ lastOp.op = "createTask"
  /\ lastOp.error = NoError
  /\ \E sessionId \in DOMAIN sessions : Len(sessions[sessionId]) = 2

\* C7: createTask with a registered id throws the error 'Task with this ID
\* already exists' and changes no task and no session list
C7_CreateTaskExists ==
  [][\A id \in EngineIds, sessionId \in {NoSession} \cup SessionIds, message \in UserMessages :
       (id \in DOMAIN tasks /\ CreateTask(id, sessionId, message)) =>
         /\ lastOp'.error = createJsonRpcError(INVALID_PARAMS, TxtTaskExists)
         /\ tasks' = tasks
         /\ sessions' = sessions]_vars

\* createTask was refused for the id of a task that has a history
C7_Witness ==
  /\ lastOp.op = "createTask"
  /\ lastOp.error.message = TxtTaskExists
  /\ tasks[lastOp.id].history # <<>>

RECURSIVE Messages(_)
\* the non-null messages of a list of statuses, in order
Messages(statuses) ==
  IF statuses = <<>> THEN <<>>
  ELSE IF Head(statuses).message # Null
    THEN <<Head(statuses).message>> \o Messages(Tail(statuses))
  ELSE Messages(Tail(statuses))

\* C8: the history of a task is the list, oldest first, of the non-null messages
\* of the statuses installed before the current one
C8_HistoryIsPriorMessages ==
  \A id \in DOMAIN tasks :
    /\ tasks[id].status = statusLog[id][Len(statusLog[id])]
    /\ tasks[id].history = Messages(SubSeq(statusLog[id], 1, Len(statusLog[id]) - 1))

\* four statuses were installed, one of the earlier ones without a message
C8_Witness ==
  \E id \in DOMAIN tasks :
    /\ Len(statusLog[id]) >= 4
    /\ Len(tasks[id].history) >= 2
    /\ \E i \in 1..(Len(statusLog[id]) - 1) : statusLog[id][i].message = Null

Working == createTaskStatus("working", Null)

\* C9: processTask installs working and nothing else before it awaits the skill;
\* when the skill returns it appends the artifacts and installs completed with
\* the returned message; a connection registered all along was sent working,
\* the artifacts (not final) and completed (final), in that order, and is closed;
\* 'please analyze this' is routed to text-analysis and ends with artifacts
C9_ProcessTaskSucceeds ==
  [][\A id \in DOMAIN tasks :
       /\ (Called("processTask", id) /\ lastOp'.phase = "await") =>
            /\ tasks'[id] = [tasks[id] EXCEPT !.status = Working,
                                              !.history = ArchiveStatus(tasks[id])]
            /\ \A c \in Subscribers(id) :
                 connections'[c].sent = Append(connections[c].sent, StatusEvent(Working, FALSE))
       /\ (Called("processTask", id) /\ lastOp'.result # Null /\ lastOp'.result.ok) =>
            LET call == lastOp'.call
                result == lastOp'.result
                completed == createTaskStatus("completed", result.message)
            IN /\ tasks'[id].status = completed
               /\ tasks'[id].artifacts = tasks[id].artifacts \o result.artifacts
               /\ \A c \in call.watchers :
                    /\ Len(connections'[c].sent) >= Len(result.artifacts) + 2
                    /\ Suffix(connections'[c].sent, Len(result.artifacts) + 2)
                         = <<StatusEvent(Working, FALSE)>>
                             \o ArtifactEvents(result.artifacts, FALSE)
                             \o <<StatusEvent(completed, TRUE)>>
                    /\ connections'[c].closed
               /\ call.task.status.message = MsgAnalyze =>
                    /\ call.skillId = "text-analysis"
                    /\ Len(tasks'[id].artifacts) >= 1]_vars

\* text-analysis returned two artifacts for 'please analyze this' while a
\* connection was registered all along
C9_Witness ==
  /\ lastOp.op = "processTask"
  /\ lastOp.result # Null
  /\ lastOp.result.ok
  /\ lastOp.call.watchers # {}
  /\ lastOp.call.task.status.message = MsgAnalyze
  /\ Len(lastOp.result.artifacts) = 2
  /\ StateOf(lastOp.id) = "completed"

\* C10: when the skill fails, processTask installs failed with the agent message
\* 'Error: ' followed by the error text, every registered connection is sent
\* that status as its final event and is closed, and the caller gets the error
C10_ProcessTaskFails ==
  [][\A id \in DOMAIN tasks :
       (Called("processTask", id) /\ lastOp'.phase = "end" /\ tasks' # tasks
          /\ (lastOp'.result # Null => ~lastOp'.result.ok)) =>
         LET text == IF lastOp'.result # Null THEN lastOp'.result.error
                     ELSE lastOp'.error.message
             failed == createTaskStatus("failed", AgentText(TxtErrorPrefix \o text))
         IN /\ tasks'[id].status = failed
            /\ tasks'[id].artifacts = tasks[id].artifacts
            /\ lastOp'.error = PlainError(text)
            /\ text # <<>>
            /\ \A c \in Subscribers(id) :
                 /\ connections'[c].sent[Len(connections'[c].sent)] = StatusEvent(failed, TRUE)
                 /\ connections'[c].closed
            /\ id \notin DOMAIN streamingConnections']_vars

\* the skill failed while a connection was registered all along
C10_Witness ==
  /\ lastOp.op = "processTask"
  /\ lastOp.result # Null
  /\ ~lastOp.result.ok
  /\ lastOp.call.watchers # {}
  /\ StateOf(lastOp.id) = "failed"

\* what a step sent a connection that existed before it
Got(c) == SubSeq(connections'[c].sent, Len(connections[c].sent) + 1, Len(connections'[c].sent))

\* what a step published for a task that existed before it
PublishedNow(id) == SubSeq(eventLog'[id], Len(eventLog[id]) + 1, Len(eventLog'[id]))

\* the events of a list stripped of their final flag
Unflagged(events) == [i \in 1..Len(events) |-> Published(events[i].type, events[i].data)]

\* a step installed a status for the task and left it in a terminal state
BecameTerminal(id) ==
  /\ Len(statusLog'[id]) > Len(statusLog[id])
  /\ tasks'[id].status.state \in terminalStates

\* C11: when a status is installed that leaves the task terminal, every
\* connection registered then was sent no final event before, is sent exactly
\* one in that step, as the last event it gets, and is closed and unregistered;
\* a closed connection is registered nowhere and is sent nothing any more
C11_OneFinalEventThenClosed ==
  [][/\ \A id \in DOMAIN tasks : \A c \in Subscribers(id) :
          BecameTerminal(id) =>
            /\ \A i \in 1..Len(connections[c].sent) : ~connections[c].sent[i].final
            /\ Len(Got(c)) >= 1
            /\ \A i \in 1..Len(Got(c)) : Got(c)[i].final <=> i = Len(Got(c))
            /\ connections'[c].closed
            /\ c \notin Registered(TM', id)
     /\ \A c \in DOMAIN connections :
          connections[c].closed =>
            /\ connections'[c] = connections[c]
            /\ \A id \in DOMAIN streamingConnections' : c \notin Registered(TM', id)]_vars

\* cancelTask closed two connections, each with the canceled status as its one final event
C11_Witness ==
  /\ lastOp.op = "cancelTask"
  /\ lastOp.error = NoError
  /\ \A c \in 1..2 :
       /\ c \in DOMAIN connections
       /\ connections[c].closed
       /\ connections[c].sent[Len(connections[c].sent)]
            = StatusEvent(createTaskStatus("canceled", AgentText(TxtCanceled)), TRUE)

\* C12: a connection attached to a task is sent the task's current status once
\* and then its artifacts once each, in list order, none of them final, and
\* nothing else; afterwards a connection is sent at most as many events as a
\* step publishes, so nothing from before the attachment is sent again
C12_AttachReplaysCurrent ==
  [][/\ \A c \in DOMAIN connections' \ DOMAIN connections :
          LET id == connections'[c].taskId IN
            id \in DOMAIN tasks' =>
              connections'[c].sent =
                <<StatusEvent(tasks'[id].status, FALSE)>>
                  \o ArtifactEvents(tasks'[id].artifacts, FALSE)
     /\ \A c \in DOMAIN connections :
          LET id == connections[c].taskId IN
            id \in DOMAIN tasks => Len(Got(c)) <= Len(PublishedNow(id))]_vars

\* a connection was attached to a completed task that has two artifacts
C12_Witness ==
  /\ lastOp.op \in {"tasks/resubscribe", "tasks/sendSubscribe"}
  /\ lastOp.error = NoError
  /\ \E c \in DOMAIN connections :
       /\ Len(connections[c].sent) = 3
       /\ connections[c].sent[1].type = "status"
       /\ connections[c].sent[1].data.state = "completed"
       /\ connections[c].sent[2].type = "artifact"
       /\ connections[c].sent[3].type = "artifact"
       /\ connections[c].sent[2] # connections[c].sent[3]

\* C13: a registered connection is sent the events a step publishes for its
\* task, in the order published, each once: all of them if it stays registered,
\* and otherwise those up to the final event it was removed on; a connection
\* that is not registered is sent nothing
C13_EventsOnceInOrder ==
  [][\A c \in DOMAIN connections :
       LET id == connections[c].taskId IN
         id \in DOMAIN tasks =>
           IF c \in Subscribers(id)
             THEN /\ Len(Got(c)) <= Len(PublishedNow(id))
                  /\ Unflagged(Got(c)) = SubSeq(PublishedNow(id), 1, Len(Got(c)))
                  /\ c \in Registered(TM', id) => Len(Got(c)) = Len(PublishedNow(id))
                  /\ Len(Got(c)) < Len(PublishedNow(id)) =>
                       /\ Len(Got(c)) >= 1
                       /\ Got(c)[Len(Got(c))].final
             ELSE Got(c) = <<>>]_vars

\* a connection attached while the skill ran was sent the artifacts and the
\* completed status after the other connection of the task had been detached
C13_Witness ==
  /\ lastOp.op = "processTask"
  /\ lastOp.result # Null
  /\ lastOp.result.ok
  /\ \E c \in DOMAIN connections, d \in DOMAIN connections :
       /\ connections[d].closed
       /\ connections[d].sent[Len(connections[d].sent)] = StatusEvent(Working, FALSE)
       /\ Len(connections[c].sent) = 4
       /\ connections[c].sent[1] = StatusEvent(Working, FALSE)
       /\ connections[c].sent[2].type = "artifact"
       /\ connections[c].sent[3].type = "artifact"
       /\ connections[c].sent[4].final

\* connection c is registered for a task that is in a terminal state
OpenOnTerminal(c) ==
  /\ c \in DOMAIN connections
  /\ connections[c].taskId \in DOMAIN tasks
  /\ StateOf(connections[c].taskId) \in terminalStates
  /\ c \in Subscribers(connections[c].taskId)

ClosedAndRemoved(c) ==
  /\ c \in DOMAIN connections
  /\ connections[c].closed
  /\ c \notin Subscribers(connections[c].taskId)

\* C14: a connection registered for a task in a terminal state is eventually
\* closed and unregistered
\* (stated as the claim states it; the code does not keep it)
C14_SubscriptionEventuallyClosed ==
  \A c \in 1..MaxConn :
    OpenOnTerminal(c) ~> ClosedAndRemoved(c)

\* C15: tasks/send with a new task id creates the task and queues exactly one
\* processTask callback for it; with the id of a task in input-required its
\* effect and result are those of continueTask; with the id of a task in any
\* other state it is an InvalidTaskState error and the tasks and every registry
\* stay as they were.
C15_SendCreatesOrContinues ==
  [][\A params \in RpcParams :
       (ValidateSend(params) = NoError /\ handleTasksSend(params)) =>
         IF params.id \notin DOMAIN tasks
           THEN /\ params.id \in DOMAIN tasks'
                /\ tasks'[params.id].status = createTaskStatus("submitted", params.message)
                /\ scheduled' = Append(scheduled, Callback("processTask", params.id, Null))
                /\ Len(scheduled') = 1
                /\ inflight' = inflight
                /\ lastOp'.error = NoError
         ELSE IF StateOf(params.id) = "input-required"
           THEN LET r == continueTask(TM, params.id, params.message, nCalls + 1) IN
                  /\ tasks' = r.tm.tasks
                  /\ lastOp' = OpOf("tasks/send", params.id, r)
                  /\ scheduled' = scheduled
           ELSE /\ lastOp'.error = createJsonRpcError(INVALID_TASK_STATE, TxtExistsNotWaiting)
                /\ UNCHANGED <<store, sessions, inflight, scheduled>>]_vars

\* a send refused on a finished task, after an earlier send continued a task
\* that was waiting for input
C15_Witness ==
  /\ lastOp.op = "tasks/send"
  /\ lastOp.error.code = INVALID_TASK_STATE
  /\ "t1" \in DOMAIN tasks
  /\ StateOf("t1") \in terminalStates
  /\ \E i \in 1..Len(statusLog["t1"]) : statusLog["t1"][i].state = "input-required"

\* C16: tasks/sendSubscribe with the id of an existing task whose state is not
\* input-required is an InvalidTaskState error; it attaches no streaming
\* subscription and sends the caller no task event.
C16_SendSubscribeRefusesNotWaiting ==
  [][\A params \in SendParams :
       (/\ ValidateSend(params) = NoError
        /\ params.id \in DOMAIN tasks
        /\ StateOf(params.id) # "input-required"
        /\ handleTasksSendSubscribe(params)) =>
         /\ lastOp'.error.code = INVALID_TASK_STATE
         /\ streamingConnections' = streamingConnections
         /\ \A c \in DOMAIN connections' :
              c \in DOMAIN connections /\ connections'[c].sent = connections[c].sent]_vars

\* the connection was attached to its task when the task was created
AttachedAtCreation(c) ==
  /\ connections[c].sent # <<>>
  /\ connections[c].sent[1].type = "status"
  /\ connections[c].sent[1].data.state = "submitted"

\* C17: tasks/sendSubscribe with a new task id attaches the connection before
\* processTask starts, and the connection is sent the submitted status first;
\* from then on it holds every event published for the task, in order, while
\* it is registered, and it is unregistered only by the client's disconnect or
\* with a final event as the last event it was sent.
C17_SubscriberSeesAllFromSubmitted ==
  /\ [][\A params \in SendParams :
          (/\ ValidateSend(params) = NoError
           /\ params.id \notin DOMAIN tasks
           /\ handleTasksSendSubscribe(params)) =>
            LET c == NextConnection IN
              /\ c \in Registered(TM', params.id)
              /\ connections'[c].sent =
                   <<StatusEvent(createTaskStatus("submitted", params.message), FALSE)>>
              /\ eventLog'[params.id] = <<>>
              /\ inflight' = inflight
              /\ scheduled' = Append(scheduled, Callback("processTask", params.id, Null))]_vars
  /\ [](\A c \in DOMAIN connections :
          AttachedAtCreation(c) =>
            LET id == connections[c].taskId
                later == Tail(connections[c].sent)
            IN /\ Len(later) <= Len(eventLog[id])
               /\ Unflagged(later) = SubSeq(eventLog[id], 1, Len(later))
               /\ \A i \in 1..Len(later) : later[i].final => i = Len(later)
               /\ c \in Subscribers(id) =>
                    /\ Len(later) = Len(eventLog[id])
                    /\ \A i \in 1..Len(later) : ~later[i].final)
  /\ [][\A c \in DOMAIN connections :
          (/\ AttachedAtCreation(c)
           /\ c \in Subscribers(connections[c].taskId)
           /\ c \notin Registered(TM', connections[c].taskId)) =>
            \/ lastOp'.op = "close"
            \/ /\ Got(c) # <<>>
               /\ Got(c)[Len(Got(c))].final
               /\ Got(c)[Len(Got(c))].type = "status"
               /\ Got(c)[Len(Got(c))].data.state \in terminalStates]_vars

\* the connection of a sendSubscribe that created the task holds the submitted
\* status, the working status, both artifacts and the final completed status
C17_Witness ==
  \E c \in DOMAIN connections :
    /\ AttachedAtCreation(c)
    /\ connections[c].closed
    /\ Len(connections[c].sent) = 5
    /\ Unflagged(Tail(connections[c].sent)) = eventLog[connections[c].taskId]
    /\ connections[c].sent[2] = StatusEvent(Working, FALSE)
    /\ connections[c].sent[3].type = "artifact"
    /\ connections[c].sent[4].type = "artifact"
    /\ connections[c].sent[5].final
    /\ connections[c].sent[5].data.state = "completed"

\* C18: tasks/resubscribe with an unknown task id fails with NotFound and
\* creates and registers no connection; with the id of an existing task it
\* registers a new connection that is sent the current status and then the
\* artifacts, and it changes no task, installs no status, publishes nothing
\* and starts or queues no processing.
C18_Resubscribe ==
  [][\A id \in TaskIds \cup UnknownIds :
       handleTasksResubscribe([id |-> id]) =>
         IF id \notin DOMAIN tasks
           THEN /\ lastOp'.error = NotFound
                /\ UNCHANGED <<store, sessions, inflight, scheduled>>
           ELSE LET c == NextConnection IN
                  /\ lastOp'.error = NoError
                  /\ c \notin DOMAIN connections
                  /\ DOMAIN connections' = DOMAIN connections \cup {c}
                  /\ \A d \in DOMAIN connections : connections'[d] = connections[d]
                  /\ Registered(TM', id) = Subscribers(id) \cup {c}
                  /\ ~connections'[c].closed
                  /\ connections'[c].sent =
                       <<StatusEvent(tasks[id].status, FALSE)>>
                         \o ArtifactEvents(tasks[id].artifacts, FALSE)
                  /\ UNCHANGED <<tasks, statusLog, eventLog, pushNotificationConfigs,
                                 pushAttempts, sessions, inflight, scheduled>>]_vars

\* a second connection was attached by tasks/resubscribe while the skill of the
\* task was running, next to the connection of the sendSubscribe that created it
C18_Witness ==
  /\ lastOp.op = "tasks/resubscribe"
  /\ lastOp.error = NoError
  /\ inflight # {}
  /\ "t1" \in DOMAIN tasks
  /\ Subscribers("t1") = {1, 2}
  /\ connections[2].sent = <<StatusEvent(Working, FALSE)>>

\* requests of tasks/send and tasks/sendSubscribe without an id, without a
\* message, or with a message of a wrong role, without parts or with a bad part
Malformed ==
  {params \in SendParams :
     \/ params.id = ""
     \/ params.message \in {Null, MsgNoParts, MsgBadFile, MsgEmptyFile, MsgBadRole, MsgBadPart}}

\* the step answered with an InvalidParams error object and left the engine alone
Refused ==
  /\ lastOp'.error \in {InvalidParams(TxtMissingParams), InvalidParams(TxtInvalidMessage)}
  /\ lastOp'.phase = "end"
  /\ UNCHANGED <<store, sessions, inflight, scheduled>>

AnyIds == TaskIds \cup UnknownIds \cup {""}

\* C19: a dispatcher call without its id, message or pushNotificationConfig, or
\* a send or sendSubscribe with a message that fails validation, returns an
\* InvalidParams error object and changes nothing of the engine: tasks,
\* sessions, push configurations, connections and pending work stay the same.
C19_InvalidParamsChangeNothing ==
  [][/\ \A params \in Malformed :
          (handleTasksSend(params) \/ handleTasksSendSubscribe(params)) => Refused
     /\ (\/ handleTasksGet([id |-> "", historyLength |-> 0])
         \/ handleTasksCancel([id |-> ""])
         \/ handleTasksPushNotificationGet([id |-> ""])
         \/ handleTasksResubscribe([id |-> ""])) => Refused
     /\ \A id \in AnyIds, config \in {Null, PushConfig, PushConfigOther} :
          (/\ id = "" \/ config = Null
           /\ handleTasksPushNotificationSet([id |-> id, pushNotificationConfig |-> config]))
            => Refused
     /\ (/\ lastOp'.error.code = INVALID_PARAMS
         /\ lastOp'.op \in {"tasks/send", "tasks/sendSubscribe", "tasks/get", "tasks/cancel",
                             "tasks/resubscribe", "tasks/pushNotification/set",
                             "tasks/pushNotification/get"}) => Refused]_vars

\* a send whose message fails validation was refused while the task of that id,
\* which has a push configuration, was being processed
C19_Witness ==
  /\ lastOp.op = "tasks/send"
  /\ lastOp.error = InvalidParams(TxtInvalidMessage)
  /\ "t1" \in DOMAIN tasks
  /\ StateOf("t1") = "working"
  /\ inflight # {}
  /\ pushNotificationConfigs # <<>>

\* two engine states agree on everything but the outcomes of the posts
SameButOutcomes(x, y) ==
  /\ x.tasks = y.tasks
  /\ x.statusLog = y.statusLog
  /\ x.eventLog = y.eventLog
  /\ x.connections = y.connections
  /\ x.streamingConnections = y.streamingConnections
  /\ x.pushNotificationConfigs = y.pushNotificationConfigs
  /\ Len(x.pushAttempts) = Len(y.pushAttempts)
  /\ \A i \in 1..Len(x.pushAttempts) :
       /\ x.pushAttempts[i].taskId = y.pushAttempts[i].taskId
       /\ x.pushAttempts[i].status = y.pushAttempts[i].status

\* C20: the answer or failure of a webhook post changes only that post's
\* outcome: no task, registry, queue or in-flight call changes, no post is
\* started again and no error is reported; and with a post delivered or failed,
\* updateTaskStatus, cancelTask, processTask and the settling of a skill give
\* the same task, the same events and the same result.
C20_PushOutcomeIsIgnored ==
  /\ [][\A i \in DOMAIN pushAttempts :
          (PushDelivered(i) \/ PushFailed(i)) =>
            /\ UNCHANGED <<tasks, statusLog, eventLog, connections, streamingConnections,
                           pushNotificationConfigs, sessions, inflight, scheduled>>
            /\ Len(pushAttempts') = Len(pushAttempts)
            /\ \A j \in DOMAIN pushAttempts : j # i => pushAttempts'[j] = pushAttempts[j]
            /\ pushAttempts'[i].outcome \in {"delivered", "failed"}
            /\ lastOp'.error = NoError]_vars
  /\ [](\A i \in DOMAIN pushAttempts : \A id \in DOMAIN tasks :
          LET ok == postSettled(TM, i, TRUE)
              ko == postSettled(TM, i, FALSE)
          IN /\ SameButOutcomes(ok, ko)
             /\ SameButOutcomes(ok, TM)
             /\ cancelTask(ok, id).error = cancelTask(ko, id).error
             /\ SameButOutcomes(cancelTask(ok, id).tm, cancelTask(ko, id).tm)
             /\ processTask(ok, id, 0).error = processTask(ko, id, 0).error
             /\ processTask(ok, id, 0).calls = processTask(ko, id, 0).calls
             /\ SameButOutcomes(processTask(ok, id, 0).tm, processTask(ko, id, 0).tm)
             /\ \A newStatus \in DirectStatuses :
                  SameButOutcomes(updateTaskStatus(ok, id, newStatus),
                                  updateTaskStatus(ko, id, newStatus))
             /\ \A call \in inflight : \A result \in ProcessOutcomes(call.skillId) :
                  IF result.ok
                    THEN SameButOutcomes(processTaskResolved(ok, id, result),
                                         processTaskResolved(ko, id, result))
                    ELSE SameButOutcomes(processTaskRejected(ok, id, result.error),
                                         processTaskRejected(ko, id, result.error)))

\* the post of the working status failed, the post of the completed status was
\* delivered, and the task is completed with its artifacts
C20_Witness ==
  /\ lastOp.op = "sendPushNotification"
  /\ "t1" \in DOMAIN tasks
  /\ StateOf("t1") = "completed"
  /\ Len(tasks["t1"].artifacts) = 2
  /\ \E i \in DOMAIN pushAttempts, j \in DOMAIN pushAttempts :
       /\ i < j
       /\ pushAttempts[i].status.state = "working"
       /\ pushAttempts[i].outcome = "failed"
       /\ pushAttempts[j].status.state = "completed"
       /\ pushAttempts[j].outcome = "delivered"
       /\ Len(pushAttempts) = 2

\* the posts of a list that are for the task
AttemptsFor(list, id) == SelectSeq(list, LAMBDA a : a.taskId = id)

\* the posts a step started for a task
StartedNow(id) ==
  AttemptsFor(SubSeq(pushAttempts', Len(pushAttempts) + 1, Len(pushAttempts')), id)

\* the statuses a step installed for a task that existed before it
InstalledNow(id) == SubSeq(statusLog'[id], Len(statusLog[id]) + 1, Len(statusLog'[id]))

\* C21: for a task with a push configuration every status installed starts
\* exactly one post, whose payload is that status and which is started when the
\* status event has been published; the post is still pending when the call
\* returns or suspends. For a task without a configuration no post is started.
C21_OnePostPerStatus ==
  [][\A id \in DOMAIN tasks :
       IF id \in DOMAIN pushNotificationConfigs
         THEN /\ Len(StartedNow(id)) = Len(InstalledNow(id))
              /\ \A k \in 1..Len(StartedNow(id)) :
                   LET post == StartedNow(id)[k] IN
                     /\ post.status = InstalledNow(id)[k]
                     /\ post.outcome = "pending"
                     /\ post.published \in 1..Len(eventLog'[id])
                     /\ post.published > Len(eventLog[id])
                     /\ eventLog'[id][post.published] = Published("status", post.status)
         ELSE StartedNow(id) = <<>>]_vars

\* the skill of a task with a push configuration returned: one post with the
\* completed status was started after the two artifact events and the status event
C21_Witness ==
  /\ lastOp.op = "processTask"
  /\ lastOp.result # Null
  /\ "t1" \in DOMAIN pushNotificationConfigs
  /\ Len(pushAttempts) = 2
  /\ pushAttempts[2].status.state = "completed"
  /\ pushAttempts[2].outcome = "pending"
  /\ pushAttempts[2].published = 4
  /\ eventLog["t1"][4] = Published("status", tasks["t1"].status)

\* the configuration getPushNotificationConfig shows for a task in a state
ConfigOf(tm, id) == getPushNotificationConfig(tm, id).pushNotificationConfig

\* C22: setting a push configuration replaces the stored one and a null
\* configuration clears it; getPushNotificationConfig returns the stored
\* configuration, or null when there is none, and changes nothing; both fail
\* with NotFound for an unknown id and store nothing; setting or clearing leaves
\* the tasks as they were; and no other call changes a task's configuration, so
\* what is read is what was set last.
C22_PushConfig ==
  [][/\ \A id \in TaskIds \cup UnknownIds, config \in {Null, PushConfig, PushConfigOther} :
          SetPushNotificationConfig(id, config) =>
            IF id \notin DOMAIN tasks
              THEN /\ lastOp'.error = NotFound
                   /\ UNCHANGED <<store, sessions>>
              ELSE /\ lastOp'.error = NoError
                   /\ ConfigOf(TM', id) = config
                   /\ config = Null <=> id \notin DOMAIN pushNotificationConfigs'
                   /\ \A other \in DOMAIN pushNotificationConfigs' \cup DOMAIN pushNotificationConfigs :
                        other # id =>
                          /\ other \in DOMAIN pushNotificationConfigs'
                          /\ other \in DOMAIN pushNotificationConfigs
                          /\ pushNotificationConfigs'[other] = pushNotificationConfigs[other]
                   /\ UNCHANGED <<tasks, statusLog, eventLog, pushAttempts, connections,
                                  streamingConnections, sessions>>
     /\ \A id \in TaskIds \cup UnknownIds :
          GetPushNotificationConfig(id) =>
            /\ UNCHANGED <<store, sessions>>
            /\ IF id \notin DOMAIN tasks
                 THEN lastOp'.error = NotFound /\ lastOp'.result = Null
                 ELSE /\ lastOp'.error = NoError
                      /\ lastOp'.result.id = id
                      /\ lastOp'.result.pushNotificationConfig =
                           IF id \in DOMAIN pushNotificationConfigs
                             THEN pushNotificationConfigs[id] ELSE Null
     /\ \A id \in DOMAIN tasks :
          (id \in DOMAIN tasks' /\ ConfigOf(TM', id) # ConfigOf(TM, id)) =>
            /\ lastOp'.op = "setPushNotificationConfig"
            /\ lastOp'.id = id
            /\ lastOp'.result.pushNotificationConfig = ConfigOf(TM', id)]_vars

\* a configuration was set, the task was canceled with a post started for it,
\* the configuration was cleared, and getPushNotificationConfig returned null
C22_Witness ==
  /\ lastOp.op = "getPushNotificationConfig"
  /\ lastOp.error = NoError
  /\ lastOp.result.pushNotificationConfig = Null
  /\ Len(pushAttempts) = 1
  /\ pushAttempts[1].status.state = "canceled"
  /\ StateOf("t1") = "canceled"

\* the age of a task's current status when the clock shows now
AgeOf(id, now) == now - getTime(tasks[id].status.timestamp)

\* C23: cleanupExpiredTasks(maxAge) deletes exactly the tasks that are in a
\* terminal state and whose status timestamp is older than maxAge, with their
\* push configurations; every other task, whatever its age, stays with its
\* status, history, artifacts and push configuration, and no task appears.
C23_CleanupExpired ==
  [][\A now \in Times, maxAge \in Times :
       CleanupExpiredTasks(now, maxAge) =>
         /\ DOMAIN tasks' \subseteq DOMAIN tasks
         /\ DOMAIN pushNotificationConfigs' \subseteq DOMAIN pushNotificationConfigs
         /\ \A id \in DOMAIN tasks :
              IF StateOf(id) \in terminalStates /\ AgeOf(id, now) > maxAge
                THEN /\ id \notin DOMAIN tasks'
                     /\ id \notin DOMAIN pushNotificationConfigs'
                ELSE /\ id \in DOMAIN tasks'
                     /\ tasks'[id] = tasks[id]
                     /\ id \in DOMAIN pushNotificationConfigs =>
                          /\ id \in DOMAIN pushNotificationConfigs'
                          /\ pushNotificationConfigs'[id] = pushNotificationConfigs[id]]_vars

\* the sweep deleted the completed task t1 and its push configuration and kept
\* the task t2, which has a status of the same age and is not terminal
C23_Witness ==
  /\ lastOp.op = "cleanupExpiredTasks"
  /\ DOMAIN tasks = {"t2"}
  /\ StateOf("t2") = "submitted"
  /\ pushNotificationConfigs = <<>>
  /\ Len(pushAttempts) = 1
  /\ pushAttempts[1].taskId = "t1"
  /\ pushAttempts[1].status.state = "completed"
  /\ pushAttempts[1].status.timestamp = tasks["t2"].status.timestamp

\* C24: a caller that writes to the task value returned by createTask, getTask,
\* updateTaskStatus, addArtifacts or cancelTask, or a skill that writes to the
\* task it was passed, leaves every stored task as it was
\* (stated as the claim states it; the code does not keep it)
C24_HandedOutValuesAreCopies ==
  [][lastOp'.op = "write" => tasks' = tasks]_vars

\* C25: getTask(id, n) with n > 0 returns the task with the last min(n, length)
\* entries of the stored history in their order, with n = 0 the whole history,
\* the other fields as stored; it changes nothing in the store; for an unknown
\* id it fails with NotFound.
C25_GetTaskHistory ==
  [][\A id \in TaskIds \cup UnknownIds, n \in 0..MaxHistory :
       GetTaskReturns(id, n) =>
         /\ UNCHANGED <<store, sessions>>
         /\ IF id \notin DOMAIN tasks
              THEN lastOp'.error = NotFound /\ lastOp'.result = Null
              ELSE LET stored == tasks[id].history
                       got == lastOp'.result.task
                       k == IF n = 0 \/ n >= Len(stored) THEN Len(stored) ELSE n
                   IN /\ lastOp'.error = NoError
                      /\ Len(got.history) = k
                      /\ \A i \in 1..k : got.history[i] = stored[Len(stored) - k + i]
                      /\ got.status = tasks[id].status
                      /\ got.artifacts = tasks[id].artifacts
                      /\ got.id = id]_vars

\* getTask(t1, 2) returned the last two of three different history entries
C25_Witness ==
  /\ lastOp.op = "getTask"
  /\ lastOp.result # Null
  /\ Len(tasks["t1"].history) = 3
  /\ Len(lastOp.result.task.history) = 2
  /\ lastOp.result.task.history = SubSeq(tasks["t1"].history, 2, 3)
  /\ tasks["t1"].history[1] # tasks["t1"].history[2]
  /\ tasks["t1"].history[2] # tasks["t1"].history[3]

\* C26: a continueTask(id, userMessage) that is not refused leaves userMessage
\* in the stored history of the task
\* (stated as the claim states it; the code does not keep it)
C26_ContinueAppendsUserMessage ==
  [][\A id \in TaskIds, userMessage \in UserMessages :
       (ContinueTask(id, userMessage) /\ lastOp'.error = NoError) =>
         \E i \in 1..Len(tasks'[id].history) : tasks'[id].history[i] = userMessage]_vars

\* C28: when continueTask restarts processing for a capability without a
\* continue operation, the skill is chosen from userMessage and its process is
\* passed a task whose status message is userMessage
\* (stated as the claim states it; the code does not keep it)
C28_RestartSeesUserMessage ==
  [][\A id \in TaskIds, userMessage \in UserMessages :
       (/\ ContinueTask(id, userMessage)
        /\ lastOp'.phase = "await"
        /\ lastOp'.call.fn = "process") =>
         /\ lastOp'.call.task.status.message = userMessage
         /\ lastOp'.call.skillId =
              determineSkill([tasks[id] EXCEPT !.status.message = userMessage])]_vars

\* C27: when the capability's continue operation returns, its artifacts are
\* appended and its message is installed as the new status, whose state is
\* completed when the continuation ran past the last orchestration step and
\* input-required when it stopped at a step that requires input
\* (stated as the claim states it; the code does not keep it)
C27_ContinuationResult ==
  [][\A call \in inflight :
       call.fn = "continueOrchestration" =>
         \A result \in ContinueOutcomes(call.task) :
           ContinueTaskResolves(call, result) =>
             /\ tasks'[call.id].artifacts = tasks[call.id].artifacts \o result.artifacts
             /\ tasks'[call.id].status.message = result.message
             /\ tasks'[call.id].status.state =
                  IF result.finished THEN "completed" ELSE "input-required"]_vars

\* ---- C29
KeywordsOf(skillId) ==
  CASE skillId = "text-analysis" ->
         {<<"a","n","a","l","y","z","e">>, <<"s","e","n","t","i","m","e","n","t">>}
    [] skillId = "image-processing" ->
         {<<"i","m","a","g","e">>, <<"p","h","o","t","o">>, <<"p","i","c","t","u","r","e">>}
    [] skillId = "data-transformation" ->
         {<<"c","o","n","v","e","r","t">>, <<"t","r","a","n","s","f","o","r","m">>,
          <<"c","s","v">>, <<"j","s","o","n">>}
    [] skillId = "task-orchestration" ->
         {<<"b","a","t","c","h">>, <<"p","i","p","e","l","i","n","e">>,
          <<"o","r","c","h","e","s","t","r","a","t","e">>}
\* the keyword occurs in the text, letters compared without regard to case
Mentions(text, kw) ==
  \E i \in 0..(Len(text) - Len(kw)) : \A j \in 1..Len(kw) : Lower(text[i + j]) = kw[j]
Names(part, skillId) ==
  /\ part.type = "text"
  /\ \E kw \in KeywordsOf(skillId) : Mentions(part.text, kw)
Decides(part) == \E skillId \in SkillIds : Names(part, skillId)
SkillPriority == <<"text-analysis", "image-processing", "data-transformation", "task-orchestration">>
SkillNamedBy(part) ==
  SkillPriority[CHOOSE k \in 1..4 :
                  /\ Names(part, SkillPriority[k])
                  /\ \A h \in 1..(k - 1) : ~Names(part, SkillPriority[h])]
\* the claim's routing over a list of parts
RoutedByParts(parts) ==
  IF \E i \in 1..Len(parts) : Decides(parts[i])
    THEN SkillNamedBy(parts[CHOOSE i \in 1..Len(parts) :
                              /\ Decides(parts[i])
                              /\ \A h \in 1..(i - 1) : ~Decides(parts[h])])
    ELSE "text-analysis"

\* C29 as stated: metadata.skill if present; otherwise the first text part that
\* contains a keyword decides, by the priority text-analysis, image-processing,
\* data-transformation, task-orchestration, whatever the case of the letters;
\* text-analysis when no text part matches, a status without a message having
\* no part that matches (the code returns no skill there)
C29_DetermineSkillAsStated ==
  [][lastOp'.op = "determineSkill" =>
       LET task == lastOp'.call IN
         lastOp'.result =
           IF task.metadata.skill # NoSkill THEN task.metadata.skill
           ELSE RoutedByParts(IF task.status.message = Null THEN <<>>
                              ELSE task.status.message.parts)]_vars

\* C29, for every task object: metadata.skill if present; otherwise no skill
\* when the status carries no message; otherwise the first text part, in part
\* order, that contains a keyword decides, by the priority text-analysis,
\* image-processing, data-transformation, task-orchestration, whatever the
\* case of the letters; text-analysis when no text part of the message matches
C29_DetermineSkill ==
  [][lastOp'.op = "determineSkill" =>
       LET task == lastOp'.call IN
         lastOp'.result =
           IF task.metadata.skill # NoSkill THEN task.metadata.skill
           ELSE IF task.status.message = Null THEN NoSkill
           ELSE RoutedByParts(task.status.message.parts)]_vars

\* determineSkill was given a message whose first part is not text, whose
\* second names two skills in upper and lower case, and chose by priority
C29_Witness ==
  /\ lastOp.op = "determineSkill"
  /\ lastOp.call.metadata.skill = NoSkill
  /\ lastOp.call.status.message # Null
  /\ Len(lastOp.call.status.message.parts) = 2
  /\ lastOp.call.status.message.parts[1].type = "data"
  /\ lastOp.call.status.message.parts[2] = createTextPart(TxtPhotoJson)
  /\ lastOp.result = "image-processing"

\* ---- C30
\* C30: every task created through tasks/send or tasks/sendSubscribe eventually
\* reaches a terminal state (completed, failed or canceled), given that queued
\* callbacks are run and that every skill invocation settles
C30_TaskEventuallyTerminal ==
  \A id \in TaskIds :
    (id \in DOMAIN tasks) ~> (id \in DOMAIN tasks /\ StateOf(id) \in terminalStates)

\* a task created by a request went through working and failed when its skill threw
C30_Witness ==
  /\ "t1" \in DOMAIN tasks
  /\ lastOp.op = "processTask"
  /\ lastOp.phase = "end"
  /\ lastOp.error # NoError
  /\ Len(statusLog["t1"]) = 3
  /\ statusLog["t1"][1].state = "submitted"
  /\ statusLog["t1"][2].state = "working"
  /\ StateOf("t1") = "failed"

\* ---- C31
\* processTask awaits the skill it invoked for the task
InFlight(id) == \E call \in inflight : call.fn = "process" /\ call.id = id

\* C31: while processTask awaits the skill of a task, requests for that task
\* are served: getTask returns the task, in state working until it is
\* canceled, and tasks/cancel can run; run on the working task it succeeds,
\* installs canceled, sends the canceled status as final event to every
\* registered connection and closes it, while the skill is still awaited
C31_NotBlockedWhileInFlight ==
  /\ [](\A id \in TaskIds :
          InFlight(id) =>
            /\ id \in DOMAIN tasks
            /\ getTask(TM, id, 0).status.state \in {"working", "canceled"}
            /\ ENABLED handleTasksCancel([id |-> id]))
  /\ [][\A id \in TaskIds :
          (InFlight(id) /\ StateOf(id) = "working" /\ handleTasksCancel([id |-> id])) =>
            /\ lastOp'.error = NoError
            /\ tasks'[id].status = createTaskStatus("canceled", AgentText(TxtCanceled))
            /\ InFlight(id)'
            /\ \A c \in Subscribers(id) :
                 /\ connections'[c].sent =
                      Append(connections[c].sent, StatusEvent(tasks'[id].status, TRUE))
                 /\ connections'[c].closed]_vars

\* a task was canceled while its skill was awaited, and its subscriber got the
\* final event; the skill is still awaited
C31_Witness ==
  /\ lastOp.op = "cancelTask"
  /\ lastOp.error = NoError
  /\ InFlight("t1")
  /\ StateOf("t1") = "canceled"
  /\ 1 \in DOMAIN connections
  /\ connections[1].closed
  /\ connections[1].sent[Len(connections[1].sent)]
       = StatusEvent(createTaskStatus("canceled", AgentText(TxtCanceled)), TRUE)

\* ---- C32
\* C32: addArtifacts on a stored task appends the given artifacts in order at
\* the end of the list, the earlier ones staying where they were, and each
\* registered connection is sent exactly one artifact event per artifact, in
\* that order; on an unknown id it throws TASK_NOT_FOUND and changes nothing
\* (stated as the claim states it; the code does not keep it)
C32_AddArtifacts ==
  [][\A id \in TaskIds \cup UnknownIds, artifacts \in ArtifactLists :
       AddArtifacts(id, artifacts) =>
         IF id \in DOMAIN tasks
           THEN /\ lastOp'.error = NoError
                /\ tasks'[id].artifacts = tasks[id].artifacts \o artifacts
                /\ \A c \in Subscribers(id) :
                     /\ Len(connections'[c].sent) = Len(connections[c].sent) + Len(artifacts)
                     /\ \A i \in 1..Len(artifacts) :
                          /\ connections'[c].sent[Len(connections[c].sent) + i].type = "artifact"
                          /\ connections'[c].sent[Len(connections[c].sent) + i].data = artifacts[i]
                     /\ SubSeq(connections'[c].sent, 1, Len(connections[c].sent))
                          = connections[c].sent
           ELSE /\ lastOp'.error.code = TASK_NOT_FOUND
                /\ UNCHANGED <<store, sessions, inflight, scheduled>>]_vars

\* the same for a task that is in no terminal state
C32_AddArtifactsWhileOpen ==
  [][\A id \in TaskIds \cup UnknownIds, artifacts \in ArtifactLists :
       (AddArtifacts(id, artifacts) /\ (id \in DOMAIN tasks => StateOf(id) \notin terminalStates)) =>
         IF id \in DOMAIN tasks
           THEN /\ lastOp'.error = NoError
                /\ tasks'[id].artifacts = tasks[id].artifacts \o artifacts
                /\ \A c \in Subscribers(id) :
                     connections'[c].sent = connections[c].sent \o ArtifactEvents(artifacts, FALSE)
           ELSE /\ lastOp'.error.code = TASK_NOT_FOUND
                /\ UNCHANGED <<store, sessions, inflight, scheduled>>]_vars

\* ---- C33
\* the routing of the stored task names no registered skill
RoutesNowhere(id) == determineSkill(getTask(TM, id, 0)) \notin SkillIds

\* C33: processTask on a stored task whose routing gives an unregistered skill
\* id or none throws the unknown-skill error and changes nothing: the status
\* and the history stay, no status is installed, no event is published or
\* sent, no push is started and no skill is awaited
C33_ProcessTaskFailsFast ==
  [][\A id \in TaskIds :
       (id \in DOMAIN tasks /\ RoutesNowhere(id) /\ ProcessTask(id)) =>
         /\ lastOp'.error =
              PlainError(TxtUnknownSkill \o SkillText(determineSkill(getTask(TM, id, 0))))
         /\ lastOp'.phase = "end"
         /\ UNCHANGED <<store, sessions, inflight, scheduled>>]_vars

\* processTask refused a task whose metadata names an unregistered skill, the
\* task having a subscriber and a push configuration
C33_Witness ==
  /\ lastOp.op = "processTask"
  /\ lastOp.error = PlainError(TxtUnknownSkill \o SkillText("summarize"))
  /\ "t1" \in DOMAIN tasks
  /\ tasks["t1"].metadata.skill = "summarize"
  /\ Subscribers("t1") # {}
  /\ "t1" \in DOMAIN pushNotificationConfigs

\* ---- C34
\* the merged artifact the client holds for an index, or the empty one
HeldFor(taskState, index) ==
  IF FindByIndex(taskState.artifacts, index) = 0
    THEN [index |-> index, parts |-> <<>>, isComplete |-> FALSE]
    ELSE taskState.artifacts[FindByIndex(taskState.artifacts, index)]

\* C34: the client's merged list holds at most one artifact per index; an
\* artifact event changes the entry of its index only, whatever its name:
\* with append its parts are put after the parts held, without they replace
\* them, and lastChunk marks the entry complete
C34_MergeByIndex ==
  /\ [](lastOp.op = "processStreamingResult" =>
          \A i, j \in 1..Len(lastOp.result.artifacts) :
            lastOp.result.artifacts[i].index = lastOp.result.artifacts[j].index => i = j)
  /\ [][\A result \in StreamResults :
          (result.artifact # Null /\ ProcessStreamingResult(result)) =>
            LET artifact == result.artifact
                before == TaskStateNow
                after == lastOp'.result
            IN /\ FindByIndex(after.artifacts, artifact.index) # 0
               /\ HeldFor(after, artifact.index).parts =
                    IF artifact.append
                      THEN HeldFor(before, artifact.index).parts \o artifact.parts
                      ELSE artifact.parts
               /\ HeldFor(after, artifact.index).name = artifact.name
               /\ artifact.lastChunk => HeldFor(after, artifact.index).isComplete
               /\ \A k \in 1..Len(before.artifacts) :
                    before.artifacts[k].index # artifact.index =>
                      after.artifacts[k] = before.artifacts[k]]_vars

\* the client holds, for index 0, the parts of an artifact named notes.txt
\* followed by the appended parts of one named report.json, marked complete,
\* and an artifact named notes.txt for index 1
C34_Witness ==
  /\ lastOp.op = "processStreamingResult"
  /\ Len(lastOp.result.artifacts) = 2
  /\ HeldFor(lastOp.result, 0).parts = <<createTextPart(TxtAnalyzeThis), createTextPart(TxtRunBatch)>>
  /\ HeldFor(lastOp.result, 0).name = "report.json"
  /\ HeldFor(lastOp.result, 0).isComplete
  /\ HeldFor(lastOp.result, 1).name = "notes.txt"

\* ---- C35
\* C35: every task id that has a push configuration is the id of a stored task
C35_ConfigsBelongToTasks ==
  DOMAIN pushNotificationConfigs \subseteq DOMAIN tasks

\* the sweep removed a task for which a push had been started, that is, one
\* that had a push configuration, and the configuration went with it
C35_Witness ==
  /\ lastOp.op = "cleanupExpiredTasks"
  /\ "t1" \notin DOMAIN tasks
  /\ "t1" \notin DOMAIN pushNotificationConfigs
  /\ \E i \in 1..Len(pushAttempts) : pushAttempts[i].taskId = "t1"

\* ---- C36
\* C36: every task id that has an entry in the registry of streaming
\* connections is the id of a stored task
\* (stated as the claim states it; the code does not keep it)
C36_SubscriptionsBelongToTasks ==
  DOMAIN streamingConnections \subseteq DOMAIN tasks

\* ---- C38
\* C38: no session's list of task ids holds the same id twice
\* (stated as the claim states it; the code does not keep it)
C38_SessionListsHaveNoDuplicates ==
  \A sessionId \in DOMAIN sessions :
    \A i, j \in 1..Len(sessions[sessionId]) :
      sessions[sessionId][i] = sessions[sessionId][j] => i = j

\* ---- C37
\* C37: addStreamingConnection with an unknown task id throws TASK_NOT_FOUND
\* and leaves the registry of streaming connections as it was; the connection
\* is sent nothing
\* (stated as the claim states it; the code does not keep it)
C37_AttachUnknownChangesNothing ==
  [][\A id \in UnknownIds \cup TaskIds :
       (id \notin DOMAIN tasks /\ AddStreamingConnection(id)) =>
         /\ lastOp'.error.code = TASK_NOT_FOUND
         /\ streamingConnections' = streamingConnections
         /\ connections'[lastOp'.call].sent = <<>>]_vars

FinalReceived(client) ==
  SelectSeq(client.received, LAMBDA n : n.status.state \in terminalStates)

\* C40: once the webhook has received a final notification for the task and
\* the request was answered, the promise of sendTaskAndWait is resolved with
\* the first final status received, unless its timer fired first, also when
\* the notification came before the answer; the completion callback is called
\* at most once
\* (stated as the claim states it; the code does not keep it)
C40_ResolvesOnFinalNotification ==
  LET client == PushClientNow IN
    /\ client.callbacks <= 1
    /\ (/\ client.responded
        /\ FinalReceived(client) # <<>>
        /\ client.promise.state # "rejected") =>
          client.promise = [state |-> "resolved", value |-> FinalReceived(client)[1].status]

\* the same for the final notifications that come after the answer
C40_ResolvesOnLaterNotification ==
  [][ (/\ lastOp'.op = "webhook"
       /\ "t1" \in DOMAIN PushClientNow.pendingTasks
       /\ Head(PushClientNow.posts).status.state \in terminalStates) =>
         /\ PushClientNow'.promise =
              [state |-> "resolved", value |-> Head(PushClientNow.posts).status]
         /\ PushClientNow'.callbacks = 1
         /\ "t1" \notin DOMAIN PushClientNow'.pendingTasks ]_vars

====
